---- MODULE Spec2Model ----
(***************************************************************************)
(* Model of the friday agent runtime: the input handler of               *)
(* core/agent_runtime.py (turn loop and confirmation state machine), the   *)
(* tool gateway of tools/gateway.py, the policy of core/policy.py, the     *)
(* registry of tools/registry.py and the in-memory state store of          *)
(* core/state.py.                                                          *)
(*                                                                         *)
(* Text values (message contents, output texts, JSON documents) are        *)
(* sequences of strings, so that concatenation is \o and every text can    *)
(* be compared with every other one.  User input is a sequence of          *)
(* one-character strings, so that str.strip() and str.lower() are          *)
(* computed character by character.                                        *)
(***************************************************************************)
EXTENDS Integers, Sequences, FiniteSets, TLC

VARIABLES
  history,     \* StateStore: session_id -> list of persisted messages
  pending,     \* AgentRuntime._pending: <<>> is None, <<p>> a PendingToolCall
  task,        \* the invocations of handle_input_text, suspended at an await
  outputs,     \* the messages published on output.text, in order
  invoked,     \* the handler invocations made by the gateway, in order
  call_seq,    \* the number of call ids new_call_id() has handed out
  llm_client,  \* TRUE iff AgentRuntime._llm_client is not None
  policy,      \* ToolGateway._policy
  inputs,      \* the number of input.text messages delivered so far
  chats,       \* the number of answers the LLM has given so far
  turns,       \* the number of inputs handled with no confirmation pending
  suspended,   \* the PendingToolCall most recently stored, as it was stored
  evaluated,   \* ToolPolicy.evaluate called on its own: <<>> or <<call>>
  gate,        \* ToolGateway.execute called on its own, with its audit log
  registry,    \* a ToolRegistry being filled and queried
  store,       \* an InMemoryStateStore and an SQLiteStateStore side by side
  bus,         \* an InMemoryBus with its subscribers and publishers
  sched,       \* a TaskScheduler, the tasks table and the clock
  mcp,         \* an MCPClient and the servers of its configuration
  redaction,   \* a JSON value handed to redact_json, and what came back
  fs           \* the workspace directory and the fs_ops calls made on it

runtime_vars == <<history, pending, task, outputs, invoked, call_seq,
                  llm_client, inputs, chats, turns, suspended>>

unit_vars == <<evaluated, gate, registry, store, bus, sched, mcp,
                 redaction, fs>>

vars == <<history, pending, task, outputs, invoked, call_seq, llm_client,
          policy, inputs, chats, turns, suspended, evaluated, gate,
          registry, store, bus, sched, mcp,
                 redaction, fs>>

----------------------------------------------------------------------------
(* Bounds of the model.                                                    *)

MaxInputs == 3

MaxChats == 3

MaxTurns == 1

MaxExecutes == 2

MaxRegisters == 3

MaxAdds == 3

MaxClock == 2

MaxSubscribes == 2

MaxPublishes == 2

MaxTasks == 1

MaxServers == 2

MaxConnects == 2

MaxText == 5

MaxItems == 1

MaxParts == 2

MaxFsCalls == 2

----------------------------------------------------------------------------
(* Program constants.                                                      *)

max_tool_steps == 3

HistoryWindow == 40

None == <<"None">>

Sessions == {"s1", "s2"}

Tasks == {"t1", "t2"}

----------------------------------------------------------------------------
(* str.strip() and str.lower() on sequences of characters.                 *)

Whitespace == {" ", "\t", "\n"}

LowerChar(c) ==
  CASE c = "Y" -> "y"
    [] c = "E" -> "e"
    [] c = "S" -> "s"
    [] c = "N" -> "n"
    [] c = "O" -> "o"
    [] OTHER -> c

lower(s) == [i \in 1 .. Len(s) |-> LowerChar(s[i])]

RECURSIVE lstrip(_)
lstrip(s) ==
  IF s # <<>> /\ Head(s) \in Whitespace THEN lstrip(Tail(s)) ELSE s

RECURSIVE rstrip(_)
rstrip(s) ==
  IF s # <<>> /\ s[Len(s)] \in Whitespace
    THEN rstrip(SubSeq(s, 1, Len(s) - 1))
    ELSE s

(* faulty variant of strip: trailing whitespace is kept                    *)
strip_LeadingOnly(s) == lstrip(s)

strip(s) == rstrip(lstrip(s))

(* The texts a producer may publish on input.text, and the messages the    *)
(* producers publish.                                                      *)
Texts ==
  { <<"y">>,
    <<" ", "Y", "e", "s">>,
    <<"n">>,
    <<"N", "O", " ">>,
    <<"m", "a", "y", "b", "e">> }

InputMessages ==
  { [session_id |-> "s1", text |-> x] : x \in Texts \ { <<"y">> } }
  \cup { [session_id |-> "s2", text |-> <<"y">>] }

(* The messages explored as the opening of a turn.  With no confirmation   *)
(* pending the text is only persisted and sent to the LLM, whose answer    *)
(* is any of Responses whatever the text; both openers are confirm words.  *)
Openers ==
  { [session_id |-> "s1", text |-> <<" ", "Y", "e", "s">>],
    [session_id |-> "s2", text |-> <<"y">>] }

ConfirmWords == { <<"y">>, <<"y", "e", "s">> }

CancelWords == { <<"n">>, <<"n", "o">> }

----------------------------------------------------------------------------
(* core/policy.py                                                          *)

SAFE == "safe"

CONFIRM == "confirm"

DANGEROUS == "dangerous"

ALLOW == "allow"

DENY == "deny"

PolicyDecision(d, r) == [decision |-> d, reason |-> r]

(* faulty variant of evaluate: a dangerous tool is offered for             *)
(* confirmation instead of being denied                                    *)
evaluate_DangerousConfirms(pol, tool_name, risk_level) ==
  IF tool_name \in pol.deny_tools
    THEN PolicyDecision(DENY, <<"Tool is blocked by policy">>)
  ELSE IF tool_name \in pol.confirm_tools
    THEN PolicyDecision(CONFIRM, <<"Tool requires confirmation">>)
  ELSE IF risk_level = SAFE
    THEN PolicyDecision(ALLOW, <<"Safe tool">>)
  ELSE PolicyDecision(CONFIRM, <<"Tool requires confirmation">>)

(* ToolPolicy.evaluate: deny-list, then confirm-list, then the risk level. *)
evaluate(pol, tool_name, risk_level) ==
  IF tool_name \in pol.deny_tools
    THEN PolicyDecision(DENY, <<"Tool is blocked by policy">>)
  ELSE IF tool_name \in pol.confirm_tools
    THEN PolicyDecision(CONFIRM, <<"Tool requires confirmation">>)
  ELSE IF risk_level = SAFE
    THEN PolicyDecision(ALLOW, <<"Safe tool">>)
  ELSE IF risk_level = CONFIRM
    THEN PolicyDecision(CONFIRM, <<"Tool requires confirmation">>)
  ELSE PolicyDecision(DENY, <<"Tool is dangerous by default">>)

(* The policies the gateway may be constructed with: ToolPolicy() as in    *)
(* app/main.py, and one with both explicit lists in use (a safe and a      *)
(* dangerous tool on the confirm list, one tool on both lists).            *)
PolicyConfigs ==
  { [confirm_tools |-> {}, deny_tools |-> {}],
    [confirm_tools |-> {"web.search", "mcp.srv.rm", "fs.write"},
     deny_tools |-> {"fs.write"}] }

----------------------------------------------------------------------------
(* tools/registry.py                                                       *)

ToolSpec(n, props, req, risk, tmo) ==
  [name |-> n,
   args_schema |-> [type |-> "object", properties |-> props, required |-> req],
   risk_level |-> risk,
   timeout_ms |-> tmo]

(* The registry after start-up: two local tools of register_local_tools    *)
(* and one MCP tool whose server configuration overrides its risk to       *)
(* dangerous (register_mcp_tools).                                         *)
_specs ==
  [n \in {"web.search", "fs.write", "mcp.srv.rm"} |->
     CASE n = "web.search" ->
            ToolSpec(n, [query |-> "string"], {"query"}, SAFE, 10000)
       [] n = "fs.write" ->
            ToolSpec(n, [path |-> "string", content |-> "string"],
                     {"path", "content"}, CONFIRM, 2000)
       [] n = "mcp.srv.rm" ->
            ToolSpec(n, [path |-> "string"], {}, DANGEROUS, 15000)]

Registered == DOMAIN _specs

(* ToolRegistry.get raises KeyError for a name that was never registered;  *)
(* the operator is only applied under the guard name \in Registered.       *)
get(name) == _specs[name]

KeyErrorText(name) == <<"'Tool not registered: ", name, "'">>

----------------------------------------------------------------------------
(* utils/jsonschema.py: jsonschema.validate for the schema keywords the    *)
(* registered tools use (type object, properties with a type, required).   *)
(* A JSON value is a pair <<type, text>>; an args object is a function     *)
(* from its keys to JSON values.                                           *)

JStr(s) == <<"string", s>>

JInt(s) == <<"integer", s>>

EmptyObject == [k \in {} |-> JStr("")]

validate_jsonschema(schema, data) ==
  /\ schema.required \subseteq DOMAIN data
  /\ \A k \in (DOMAIN data) \cap (DOMAIN schema.properties) :
       data[k][1] = schema.properties[k]

----------------------------------------------------------------------------
(* bus/schemas.py and json.dumps.  A dict with one key is the pair         *)
(* <<key, value>>; a value is a text or None.                              *)

ToolCall(sid, cid, tool, args, rc) ==
  [session_id |-> sid, call_id |-> cid, tool |-> tool, args |-> args,
   requires_confirm |-> rc]

ToolResult(cid, ok, result, error) ==
  [call_id |-> cid, ok |-> ok, result |-> result, error |-> error]

json_value(v) == IF v = None THEN <<"null">> ELSE <<"\"">> \o v \o <<"\"">>

json_dumps(d) == <<"{\"", d[1], "\": ">> \o json_value(d[2]) \o <<"}">>

----------------------------------------------------------------------------
(* tools/gateway.py                                                        *)

(* What a handler does once it has been started: it returns a value        *)
(* (None included), raises, or is cancelled by asyncio.wait_for, whose     *)
(* TimeoutError has the empty string as str().                             *)
HandlerOutcomes ==
  { [kind |-> "return", value |-> <<"ok">>],
    [kind |-> "return", value |-> None],
    [kind |-> "raise", value |-> <<"boom">>],
    [kind |-> "timeout", value |-> <<>>] }

(* The handlers registered with the tools: what each of them may do when   *)
(* called.  The search goes over the network and may run out of time, the  *)
(* write may fail, and the third handler is one that returns None (a       *)
(* ToolHandler is any Callable[..., Awaitable[object]]) or fails.          *)
_handlers ==
  [n \in Registered |->
     CASE n = "web.search" ->
            { [kind |-> "return", value |-> <<"ok">>],
              [kind |-> "timeout", value |-> <<>>] }
       [] n = "fs.write" ->
            { [kind |-> "return", value |-> <<"ok">>],
              [kind |-> "raise", value |-> <<"boom">>] }
       [] n = "mcp.srv.rm" ->
            { [kind |-> "return", value |-> None],
              [kind |-> "raise", value |-> <<"boom">>] }]

ValidationErrorText == <<"ValidationError">>

(* faulty variant of execute: the args are not validated                   *)
execute_Unvalidated(pol, call) ==
  LET spec == get(call.tool)
      decision == evaluate(pol, spec.name, spec.risk_level)
      blank == [kind |-> "await", tool_name |-> spec.name,
                reason |-> decision.reason, exc |-> <<>>,
                result |-> ToolResult(call.call_id, FALSE, None, None)]
  IN  IF decision.decision = DENY
        THEN [blank EXCEPT !.kind = "result",
                !.result = ToolResult(call.call_id, FALSE, None,
                                      decision.reason)]
      ELSE IF decision.decision = CONFIRM /\ call.requires_confirm
        THEN [blank EXCEPT !.kind = "confirm"]
      ELSE blank

(* ToolGateway.execute up to its first await, for a registered tool:       *)
(* policy, confirmation, validation.  kind is "result" (returned without   *)
(* running the handler), "confirm" (ConfirmationRequired raised), "raise"  *)
(* (validate_jsonschema raised) or "await" (the handler was started).      *)
execute(pol, call) ==
  LET spec == get(call.tool)
      decision == evaluate(pol, spec.name, spec.risk_level)
      blank == [kind |-> "await", tool_name |-> spec.name,
                reason |-> decision.reason, exc |-> <<>>,
                result |-> ToolResult(call.call_id, FALSE, None, None)]
  IN  IF decision.decision = DENY
        THEN [blank EXCEPT !.kind = "result",
                !.result = ToolResult(call.call_id, FALSE, None,
                                      decision.reason)]
      ELSE IF decision.decision = CONFIRM /\ call.requires_confirm
        THEN [blank EXCEPT !.kind = "confirm"]
      ELSE IF ~ validate_jsonschema(spec.args_schema, call.args)
        THEN [blank EXCEPT !.kind = "raise", !.exc = ValidationErrorText]
      ELSE blank

(* ToolGateway.execute after the await of the handler.                     *)
execute_result(call, outcome) ==
  IF outcome.kind = "return"
    THEN ToolResult(call.call_id, TRUE,
                    IF outcome.value # None THEN <<"data", outcome.value>>
                                            ELSE None,
                    None)
    ELSE ToolResult(call.call_id, FALSE, None, outcome.value)

----------------------------------------------------------------------------
(* core/llm.py: what a call of OpenRouterClient.chat may answer.           *)

LLMToolCall(id, name, arguments) ==
  [id |-> id, name |-> name, arguments |-> arguments]

LLMResponse(content, calls) ==
  [content |-> content, tool_calls |-> calls, raw_tool_calls |-> calls]

WebSearchOk(id) == LLMToolCall(id, "web.search", [query |-> JStr("x")])

WebSearchBad(id) == LLMToolCall(id, "web.search", [query |-> JInt("1")])

FsWriteOk(id) ==
  LLMToolCall(id, "fs.write", [path |-> JStr("p"), content |-> JStr("c")])

FsWriteBad(id) == LLMToolCall(id, "fs.write", [path |-> JStr("p")])

McpRm(id) == LLMToolCall(id, "mcp.srv.rm", EmptyObject)

Unregistered(id) == LLMToolCall(id, "ghost.tool", EmptyObject)

(* Responses without tool calls: content None or a reply.                  *)
FinalResponses ==
  { LLMResponse(None, <<>>), LLMResponse(<<"Done.">>, <<>>) }

(* Responses with tool calls; the provider numbers the calls of one        *)
(* response c1, c2, ...                                                    *)
ToolResponses ==
  { LLMResponse(None, <<c>>) :
      c \in { WebSearchOk("c1"), WebSearchBad("c1"), FsWriteOk("c1"),
              FsWriteBad("c1"), McpRm("c1"), Unregistered("c1") } }
  \cup
  { LLMResponse(<<"Working.">>, <<WebSearchOk("c1"), FsWriteOk("c2")>>) }

Responses == FinalResponses \cup ToolResponses

LLMErrors == { <<"503 Service Unavailable">> }

----------------------------------------------------------------------------
(* core/agent_runtime.py                                                   *)

_system_prompt == "You are Friday."

_tool_prompt == "Use tools when needed."

StoredMessage(role, content) == [role |-> role, content |-> content]

PromptMessage(role, content, tool_call_id, tool_calls) ==
  [role |-> role, content |-> content, tool_call_id |-> tool_call_id,
   tool_calls |-> tool_calls]

PendingToolCall(sid, tool_call, llm_tool_call_id, messages) ==
  [session_id |-> sid, tool_call |-> tool_call,
   llm_tool_call_id |-> llm_tool_call_id, messages |-> messages]

OutputText(sid, text) == [session_id |-> sid, text |-> text]

(* history[-40:]                                                           *)
LastK(seq, k) ==
  IF Len(seq) <= k THEN seq ELSE SubSeq(seq, Len(seq) - k + 1, Len(seq))

(* AgentRuntime._build_messages                                            *)
_build_messages(hist) ==
  <<PromptMessage("system", <<_system_prompt, "\n\n", _tool_prompt>>, "", <<>>)>>
  \o [i \in 1 .. Len(LastK(hist, HistoryWindow)) |->
        PromptMessage(LastK(hist, HistoryWindow)[i].role,
                      LastK(hist, HistoryWindow)[i].content, "", <<>>)]

(* _build_tool_call, for a registered name; cid is the new_call_id().      *)
_build_tool_call(sid, call, cid) ==
  ToolCall(sid, cid, call.name, call.arguments,
           get(call.name).risk_level # SAFE)

(* the tool_content both callers of the gateway compute from a result      *)
tool_content(result) ==
  json_dumps(IF result.result # None THEN result.result
                                     ELSE <<"error", result.error>>)

(* One invocation of handle_input_text.  pc is the await it is suspended   *)
(* at: "llm" and "tool" in _handle_llm, "ctool" and "cllm" in              *)
(* _handle_confirmation; "idle" when it has returned.  The fields after    *)
(* pend record what the invocation did, for the properties below: the      *)
(* branch taken (kind), the pending slot, the history length and the       *)
(* number of handler invocations when it started, the chat calls made,     *)
(* the tool results persisted, whether every chat response carried tool    *)
(* calls (exactly one each), whether a chat call raised, whether an        *)
(* exception left handle_input_text, the texts returned, the calls handed  *)
(* to the gateway with what became of them and where in the loops they     *)
(* were made, the last chat response, and what each awaited handler did   *)
(* with the ToolResult and the tool message that came of it (done).        *)
IdleTask ==
  [pc |-> "idle", session_id |-> "s1", text |-> <<>>, messages |-> <<>>,
   step |-> 0, calls |-> <<>>, idx |-> 0, tool_call |-> <<>>, pend |-> <<>>,
   kind |-> "none", pending0 |-> <<>>, len0 |-> 0, inv0 |-> 0,
   llm_calls |-> 0, tool_results |-> 0, all_tool |-> TRUE,
   one_per_step |-> TRUE, llm_failed |-> FALSE, raised |-> FALSE,
   out |-> <<>>, gw |-> <<>>, last_response |-> <<>>, done |-> <<>>]

HandlerDone(call, outcome) ==
  [call |-> call, outcome |-> outcome,
   result |-> execute_result(call, outcome),
   content |-> tool_content(execute_result(call, outcome))]

GatewayEvent(h, call, r) ==
  [call |-> call, kind |-> r.kind, result |-> r.result, step |-> h.step,
   idx |-> h.idx]


(* The program state one invocation works on: the shared state and its own *)
(* record h.                                                               *)
World(t) ==
  [history |-> history, pending |-> pending, outputs |-> outputs,
   invoked |-> invoked, call_seq |-> call_seq, suspended |-> suspended,
   h |-> task[t]]

(* StateStore.add_message                                                  *)
add_message(w, sid, role, content) ==
  [w EXCEPT !.history[sid] = Append(@, StoredMessage(role, content))]

(* return _output_text(session_id, text), published by on_input            *)
Return(w, text) ==
  [w EXCEPT !.outputs = Append(@, OutputText(w.h.session_id, text)),
            !.h.pc = "idle",
            !.h.out = Append(@, text)]

(* faulty variant of RuntimeError: on_input has no except clause, the      *)
(* exception ends the handler and nothing is published                     *)
RuntimeError_Unpublished(w, exc) ==
  [w EXCEPT !.h.raised = TRUE, !.h.pc = "idle"]

(* an exception that leaves handle_input_text: on_input publishes it       *)
RuntimeError(w, exc) ==
  Return([w EXCEPT !.h.raised = TRUE], <<"Runtime error: ">> \o exc)

(* the handler coroutine is created and awaited under wait_for             *)
StartHandler(w, call, pc) ==
  [w EXCEPT !.invoked = Append(@, call),
            !.h.pc = pc,
            !.h.tool_call = <<call>>]

(* faulty variant of _finalize_llm_response: the reply is returned but     *)
(* not persisted                                                           *)
_finalize_llm_response_Unpersisted(w, response) ==
  LET content == IF response.content \in {None, <<>>}
                   THEN <<"No response.">>
                   ELSE response.content
  IN  Return(w, content)

(* AgentRuntime._finalize_llm_response                                     *)
_finalize_llm_response(w, response) ==
  LET content == IF response.content \in {None, <<>>}
                   THEN <<"No response.">>
                   ELSE response.content
  IN  Return(add_message(w, w.h.session_id, "assistant", content), content)

(* faulty variant of AppendToolResult: the tool message is put in front of *)
(* the session's history instead of at its end                             *)
AppendToolResult_Prepends(w, result, id) ==
  [w EXCEPT !.history[w.h.session_id] =
              <<StoredMessage("tool", tool_content(result))>> \o @,
            !.h.messages =
              Append(@, PromptMessage("tool", tool_content(result), id, <<>>)),
            !.h.tool_results = @ + 1]

(* _handle_llm, lines 162-174: persist a tool result and append it to the  *)
(* working prompt under the id of the LLM's call.                          *)
AppendToolResult(w, result, id) ==
  [add_message(w, w.h.session_id, "tool", tool_content(result))
     EXCEPT !.h.messages =
              Append(@, PromptMessage("tool", tool_content(result), id, <<>>)),
            !.h.tool_results = @ + 1]

(* faulty variant of NextStep: the range loop runs one step too many       *)
NextStep_OneMore(w) ==
  IF w.h.step + 1 > max_tool_steps
    THEN Return(w, <<"Tool loop exceeded max steps.">>)
    ELSE [w EXCEPT !.h.step = @ + 1, !.h.pc = "llm", !.h.llm_calls = @ + 1]

(* _handle_llm, lines 128-130 and 176: the calls of a response are         *)
(* exhausted; range(max_tool_steps) gives the next chat call or is         *)
(* exhausted too                                                           *)
NextStep(w) ==
  IF w.h.step + 1 >= max_tool_steps
    THEN Return(w, <<"Tool loop exceeded max steps.">>)
    ELSE [w EXCEPT !.h.step = @ + 1, !.h.pc = "llm", !.h.llm_calls = @ + 1]

(* _handle_llm, lines 146-160: the loop over response.tool_calls from      *)
(* position h.idx, up to the next await or return.                         *)
RECURSIVE dispatch(_)
dispatch(w) ==
  LET h == w.h IN
  IF h.idx > Len(h.calls)
    THEN NextStep(w)
  ELSE IF h.calls[h.idx].name \notin Registered
    THEN RuntimeError(w, KeyErrorText(h.calls[h.idx].name))
  ELSE
    LET call == h.calls[h.idx]
        tool_call == _build_tool_call(h.session_id, call, w.call_seq + 1)
        r == execute(policy, tool_call)
        w1 == [w EXCEPT !.call_seq = @ + 1,
                        !.h.gw = Append(@, GatewayEvent(h, tool_call, r))]
    IN  CASE r.kind = "result" ->
               dispatch([AppendToolResult(w1, r.result, call.id)
                           EXCEPT !.h.idx = @ + 1])
          [] r.kind = "confirm" ->
               Return([w1 EXCEPT
                         !.pending = <<PendingToolCall(h.session_id, tool_call,
                                                       call.id, h.messages)>>,
                         !.suspended = <<PendingToolCall(h.session_id,
                                           tool_call, call.id, h.messages)>>],
                      <<"Confirm tool call ", r.tool_name, "? (yes/no)">>)
          [] r.kind = "raise" -> RuntimeError(w1, r.exc)
          [] OTHER -> StartHandler(w1, tool_call, "tool")

(* _handle_llm, lines 133-144: a response of the chat call                 *)
AfterResponse(w, response) ==
  IF response.tool_calls = <<>>
    THEN _finalize_llm_response([w EXCEPT !.h.all_tool = FALSE], response)
    ELSE
      LET content == IF response.content \in {None, <<>>}
                       THEN <<>> ELSE response.content
          w1 == [w EXCEPT
                   !.h.messages =
                      Append(@, PromptMessage("assistant", content, "",
                                              response.raw_tool_calls)),
                   !.h.calls = response.tool_calls,
                   !.h.idx = 1,
                   !.h.one_per_step = @ /\ Len(response.tool_calls) = 1]
          w2 == IF content # <<>>
                  THEN add_message(w1, w.h.session_id, "assistant", content)
                  ELSE w1
      IN  dispatch(w2)

(* _handle_llm, lines 122-130: up to the first chat call                   *)
_handle_llm(w) ==
  [w EXCEPT !.h.kind = "turn",
            !.h.messages = _build_messages(w.history[w.h.session_id]),
            !.h.step = 0,
            !.h.pc = "llm",
            !.h.llm_calls = 1]

(* _handle_confirmation, lines 93-111: the result of the confirmed call    *)
AfterConfirmedResult(w, result) ==
  LET p == w.h.pend[1]
      w1 == add_message(w, w.h.session_id, "tool", tool_content(result))
  IN  [w1 EXCEPT
         !.h.messages =
            Append(p.messages,
                   PromptMessage("tool", tool_content(result),
                                 p.llm_tool_call_id, <<>>)),
         !.h.tool_results = @ + 1,
         !.h.pc = "cllm",
         !.h.llm_calls = @ + 1]

(* faulty variant of ConfirmBranch: the slot is not cleared before the     *)
(* gateway is awaited                                                      *)
ConfirmBranch_KeepsPending(w) ==
  IF w.pending = <<>> THEN Return(w, <<"No pending tool call.">>) ELSE
  LET p == w.pending[1]
      confirmed_call == ToolCall(p.tool_call.session_id,
                                 p.tool_call.call_id, p.tool_call.tool,
                                 p.tool_call.args, FALSE)
      r == execute(policy, confirmed_call)
      w1 == [w EXCEPT !.h.kind = "yes",
                      !.h.pend = <<p>>,
                      !.h.gw = Append(@, GatewayEvent(w.h, confirmed_call, r))]
  IN  CASE r.kind = "result" -> AfterConfirmedResult(w1, r.result)
        [] r.kind = "raise" -> RuntimeError(w1, r.exc)
        [] r.kind = "confirm" -> RuntimeError(w1, <<"ConfirmationRequired">>)
        [] OTHER -> StartHandler(w1, confirmed_call, "ctool")

(* _handle_confirmation, lines 81-92: the confirmed call goes to the       *)
(* gateway, up to the await of its handler                                 *)
ConfirmBranch(w) ==
  IF w.pending = <<>> THEN Return(w, <<"No pending tool call.">>) ELSE
  LET p == w.pending[1]
      confirmed_call == ToolCall(p.tool_call.session_id,
                                 p.tool_call.call_id, p.tool_call.tool,
                                 p.tool_call.args, FALSE)
      r == execute(policy, confirmed_call)
      w1 == [w EXCEPT !.pending = <<>>, !.h.kind = "yes",
                      !.h.pend = <<p>>,
                      !.h.gw = Append(@, GatewayEvent(w.h, confirmed_call, r))]
  IN  CASE r.kind = "result" -> AfterConfirmedResult(w1, r.result)
        [] r.kind = "raise" -> RuntimeError(w1, r.exc)
        [] r.kind = "confirm" -> RuntimeError(w1, <<"ConfirmationRequired">>)
        [] OTHER -> StartHandler(w1, confirmed_call, "ctool")

(* faulty variant of CancelBranch: the pending call stays in the slot      *)
CancelBranch_KeepsPending(w) ==
  Return([w EXCEPT !.h.kind = "no"], <<"Cancelled tool call.">>)

(* _handle_confirmation, lines 116-118                                     *)
CancelBranch(w) ==
  Return([w EXCEPT !.pending = <<>>, !.h.kind = "no"],
         <<"Cancelled tool call.">>)

(* faulty variant of UnclearBranch: the pending call is dropped            *)
UnclearBranch_DropsPending(w) ==
  Return([w EXCEPT !.pending = <<>>, !.h.kind = "other"],
         <<"Confirm with yes/no.">>)

(* _handle_confirmation, line 120                                          *)
UnclearBranch(w) ==
  Return([w EXCEPT !.h.kind = "other"], <<"Confirm with yes/no.">>)

(* _handle_confirmation, lines 78-80 and 116: the decision                 *)
_handle_confirmation(w) ==
  LET decision == lower(strip(w.h.text)) IN
  IF decision \in ConfirmWords THEN ConfirmBranch(w)
  ELSE IF decision \in CancelWords THEN CancelBranch(w)
  ELSE UnclearBranch(w)

(* faulty variant of HandleInput: the echo is returned but not persisted    *)
HandleInput_EchoUnpersisted(w) ==
  LET w1 == add_message(w, w.h.session_id, "user", w.h.text) IN
  IF w.pending # <<>>
    THEN _handle_confirmation(w1)
  ELSE IF ~ llm_client
    THEN Return([w1 EXCEPT !.h.kind = "echo"], <<"Received: ">> \o w.h.text)
  ELSE _handle_llm(w1)

(* handle_input_text, lines 56-76, up to the first await or the return     *)
HandleInput(w) ==
  LET w1 == add_message(w, w.h.session_id, "user", w.h.text) IN
  IF w.pending # <<>>
    THEN _handle_confirmation(w1)
  ELSE IF ~ llm_client
    THEN LET reply == <<"Received: ">> \o w.h.text
         IN  Return(add_message([w1 EXCEPT !.h.kind = "echo"],
                                w.h.session_id, "assistant", reply),
                    reply)
  ELSE _handle_llm(w1)

----------------------------------------------------------------------------
(* The state machine.                                                      *)

CommitRuntime(t, w) ==
  /\ history' = w.history
  /\ pending' = w.pending
  /\ outputs' = w.outputs
  /\ invoked' = w.invoked
  /\ call_seq' = w.call_seq
  /\ suspended' = w.suspended
  /\ task' = [task EXCEPT ![t] = w.h]
  /\ UNCHANGED <<llm_client, policy>>

Commit(t, w) ==
  /\ CommitRuntime(t, w)
  /\ UNCHANGED unit_vars

(* The components below are also exercised on their own, each by a        *)
(* specification of its own; UnitsInit is their state while the runtime   *)
(* is the one running, RuntimeAtRest the runtime's while a component is.  *)
IdleGate ==
  [db_path |-> FALSE, pc |-> "idle", call |-> <<>>, tool_result |-> <<>>,
   started |-> <<>>, finished |-> <<>>, tool_calls |-> <<>>, n |-> 0]

(* ToolRegistry(): both dicts empty.  calls and last record the register  *)
(* calls made so far and the outcome of the latest get or handler call    *)
(* (at: the number of register calls made before it).                     *)
EmptyRegistry ==
  [_specs |-> <<>>, _handlers |-> <<>>, calls |-> <<>>, last |-> <<>>]

(* InMemoryStateStore() with its _sessions dict, and the conversations     *)
(* table of a fresh database in rowid order; now is the clock read by      *)
(* now_ts(), uuid the number of uuid4() values drawn.  added_mem and       *)
(* added_sql record the Message objects add_message returned, by session,  *)
(* listed the latest list_messages call.                                   *)
EmptyStores ==
  [_sessions |-> <<>>, rows |-> <<>>, now |-> 1, uuid |-> 0, n |-> 0,
   added_mem |-> [sid \in Sessions |-> <<>>],
   added_sql |-> [sid \in Sessions |-> <<>>],
   listed |-> <<>>]

Topics == {"input.text", "output.text"}

Publishers == {"p1", "p2"}

(* InMemoryBus(): no handler subscribed to any topic.  subs is the list of *)
(* subscribe calls made, active the publish call each publisher is         *)
(* awaiting, done the publish calls that are over, events the starts and   *)
(* ends of the handler invocations in the order they happened.             *)
EmptyBus ==
  [_handlers |-> [topic \in Topics |-> <<>>], subs |-> <<>>,
   active |-> [p \in Publishers |-> <<>>], done |-> <<>>, events |-> <<>>,
   n |-> 0]

Loops == {"r1", "r2"}

(* a run() coroutine that has not been started                             *)
IdleLoop == [pc |-> "none", now |-> 0, due |-> <<>>, i |-> 0, tick |-> 0]

(* TaskScheduler(db_path, bus, session_id) on a database with an empty     *)
(* tasks table.  tasks are the rows in rowid order, now the second         *)
(* now_ts() returns, loop the run() coroutines started, ticks the number   *)
(* of ticks begun, published the publications made, each with the tick    *)
(* that made it.                                                           *)
IdleScheduler ==
  [tasks |-> <<>>, now |-> 1, _running |-> FALSE,
   loop |-> [l \in Loops |-> IdleLoop], ticks |-> 0, published |-> <<>>]

(* MCPClient(config) before connect(): no exit stack, no session, no tool. *)
(* calls is the number of connect() calls made, pc and i where the         *)
(* running call stands, opened the connections opened, logged the servers  *)
(* whose failure was logged, raised what left connect().                   *)
ClosedMCP ==
  [servers |-> <<>>, _exit_stack |-> FALSE, _sessions |-> {}, _tools |-> {},
   calls |-> 0, pc |-> "idle", i |-> 0, opened |-> <<>>, logged |-> <<>>,
   raised |-> <<>>]

(* no value has been handed to redact_json                                 *)
NoRedaction == [value |-> <<>>, once |-> <<>>, twice |-> <<>>]

(* no fs_ops call has been made: links are the symbolic links of the file  *)
(* system, n the number of calls made, call the handler call that ended    *)
(* last and io the paths it created, read or wrote                         *)
ClosedFs == [links |-> {}, n |-> 0, call |-> <<>>, io |-> <<>>]

UnitsInit ==
  /\ evaluated = <<>>
  /\ gate = IdleGate
  /\ registry = EmptyRegistry
  /\ store = EmptyStores
  /\ bus = EmptyBus
  /\ sched = IdleScheduler
  /\ mcp = ClosedMCP
  /\ redaction = NoRedaction
  /\ fs = ClosedFs

RuntimeAtRest ==
  /\ history = [s \in Sessions |-> <<>>]
  /\ pending = <<>>
  /\ task = [t \in Tasks |-> IdleTask]
  /\ outputs = <<>>
  /\ invoked = <<>>
  /\ call_seq = 0
  /\ llm_client = FALSE
  /\ inputs = 0
  /\ chats = 0
  /\ turns = 0
  /\ suspended = <<>>

Init ==
  /\ history = [s \in Sessions |-> <<>>]
  /\ pending = <<>>
  /\ task = [t \in Tasks |-> IdleTask]
  /\ outputs = <<>>
  /\ invoked = <<>>
  /\ call_seq = 0
  /\ llm_client \in BOOLEAN
  /\ policy \in PolicyConfigs
  /\ inputs = 0
  /\ chats = 0
  /\ turns = 0
  /\ suspended = <<>>
  /\ UnitsInit

(* An input.text message is published and on_input calls                   *)
(* handle_input_text; the handlers of one runtime run one at a time.       *)
(* At most MaxTurns of the inputs explored arrive with no confirmation     *)
(* pending (any number of them when there is no LLM client and an input    *)
(* is only echoed), and those are drawn from Openers.                      *)
handle_input_text(t, sid, text) ==
  /\ inputs < MaxInputs
  /\ pending = <<>> => (turns < MaxTurns \/ ~ llm_client)
  /\ pending = <<>> => [session_id |-> sid, text |-> text] \in Openers
  /\ t = "t1"
  /\ \A u \in Tasks : task[u].pc = "idle"
  /\ inputs' = inputs + 1
  /\ turns' = IF pending = <<>> THEN turns + 1 ELSE turns
  /\ UNCHANGED chats
  /\ Commit(t, HandleInput(
        [World(t) EXCEPT
           !.h = [IdleTask EXCEPT !.session_id = sid, !.text = text,
                                  !.pending0 = pending,
                                  !.len0 = Len(history[sid]),
                                  !.inv0 = Len(invoked)]]))

(* The chat call awaited in _handle_llm answers.                           *)
TurnChatReturns(t, response) ==
  /\ task[t].pc = "llm"
  /\ chats < MaxChats
  /\ chats' = chats + 1
  /\ Commit(t, AfterResponse(
        [World(t) EXCEPT !.h.last_response = <<response>>], response))
  /\ UNCHANGED <<inputs, turns>>

(* faulty variant of TurnChatRaises: the exception is not caught in        *)
(* _handle_llm and reaches on_input                                        *)
TurnChatRaises_Uncaught(t, exc) ==
  /\ task[t].pc = "llm"
  /\ Commit(t, RuntimeError([World(t) EXCEPT !.h.llm_failed = TRUE], exc))
  /\ UNCHANGED <<inputs, chats, turns>>

(* The chat call awaited in _handle_llm raises.                            *)
TurnChatRaises(t, exc) ==
  /\ task[t].pc = "llm"
  /\ Commit(t, Return([World(t) EXCEPT !.h.llm_failed = TRUE],
                       <<"LLM error: ">> \o exc))
  /\ UNCHANGED <<inputs, chats, turns>>

(* The handler awaited by the gateway inside _handle_llm finishes.         *)
TurnToolReturns(t, outcome) ==
  /\ task[t].pc = "tool"
  /\ outcome \in _handlers[task[t].tool_call[1].tool]
  /\ Commit(t, dispatch(
        [AppendToolResult(World(t),
                          execute_result(task[t].tool_call[1], outcome),
                          task[t].calls[task[t].idx].id)
           EXCEPT !.h.idx = @ + 1,
                  !.h.done =
                     Append(@, HandlerDone(task[t].tool_call[1], outcome))]))
  /\ UNCHANGED <<inputs, chats, turns>>

(* The handler awaited by the gateway inside _handle_confirmation          *)
(* finishes.                                                               *)
ConfirmToolReturns(t, outcome) ==
  /\ task[t].pc = "ctool"
  /\ outcome \in _handlers[task[t].tool_call[1].tool]
  /\ Commit(t, AfterConfirmedResult(
        [World(t) EXCEPT
           !.h.done = Append(@, HandlerDone(task[t].tool_call[1], outcome))],
        execute_result(task[t].tool_call[1], outcome)))
  /\ UNCHANGED <<inputs, chats, turns>>

(* The chat call awaited in _handle_confirmation answers.                  *)
ConfirmChatReturns(t, response) ==
  /\ task[t].pc = "cllm"
  /\ chats < MaxChats
  /\ chats' = chats + 1
  /\ Commit(t, _finalize_llm_response(
        [World(t) EXCEPT !.h.last_response = <<response>>], response))
  /\ UNCHANGED <<inputs, turns>>

(* The chat call awaited in _handle_confirmation raises.                   *)
ConfirmChatRaises(t, exc) ==
  /\ task[t].pc = "cllm"
  /\ Commit(t, Return([World(t) EXCEPT !.h.llm_failed = TRUE],
                       <<"LLM error: ">> \o exc))
  /\ UNCHANGED <<inputs, chats, turns>>

Next ==
  \E t \in Tasks :
    \/ \E m \in InputMessages : handle_input_text(t, m.session_id, m.text)
    \/ \E response \in Responses : TurnChatReturns(t, response)
    \/ \E exc \in LLMErrors : TurnChatRaises(t, exc)
    \/ \E outcome \in HandlerOutcomes : TurnToolReturns(t, outcome)
    \/ \E outcome \in HandlerOutcomes : ConfirmToolReturns(t, outcome)
    \/ \E response \in Responses : ConfirmChatReturns(t, response)
    \/ \E exc \in LLMErrors : ConfirmChatRaises(t, exc)

Spec == Init /\ [][Next]_vars

----------------------------------------------------------------------------
(* Vocabulary of the properties.                                           *)

Idle(t) == task[t].pc = "idle"

(* the texts of InputMessages, classified by hand                          *)
YesTexts == { <<"y">>, <<" ", "Y", "e", "s">> }

NoTexts == { <<"n">>, <<"N", "O", " ">> }

OtherTexts == { <<"m", "a", "y", "b", "e">> }

(* the persisted messages an invocation has added to its session so far    *)
Added(t) ==
  SubSeq(history[task[t].session_id], task[t].len0 + 1,
         Len(history[task[t].session_id]))

ToolMessages(seq) == SelectSeq(seq, LAMBDA m : m.role = "tool")

ResumedPrompt(t) ==
  Append(suspended[1].messages,
         PromptMessage("tool", ToolMessages(Added(t))[1].content,
                       suspended[1].llm_tool_call_id, <<>>))

(* C2: once a y/yes has been handled, the pending call went to the gateway *)
(* with requires_confirm = FALSE, exactly one tool message was persisted,  *)
(* and the one chat call made received the prompt snapshotted at           *)
(* suspension plus that tool message under the stored llm_tool_call_id.    *)
C2_ConfirmedCallResumes ==
  \A t \in Tasks :
    (task[t].kind = "yes" /\ Idle(t)) =>
      /\ Len(task[t].gw) = 1
      /\ task[t].gw[1].call =
           [suspended[1].tool_call EXCEPT !.requires_confirm = FALSE]
      /\ Len(ToolMessages(Added(t))) = 1
      /\ task[t].llm_calls = 1
      /\ task[t].messages = ResumedPrompt(t)

(* C3: when the chat response that follows a confirmed call carries tool   *)
(* calls, the handling of the "yes" hands them to the gateway: some call   *)
(* younger than the confirmed one reaches the gateway before the output.   *)
C3_ResumedLoopDispatches ==
  \A t \in Tasks :
    ( /\ task[t].kind = "yes"
      /\ Idle(t)
      /\ task[t].last_response # <<>>
      /\ task[t].last_response[1].tool_calls # <<>> )
    => call_seq > task[t].pend[1].tool_call.call_id

(* C4: once an n/no has been handled, the slot is empty, the pending call  *)
(* has no handler invocation, the handling made no chat call and persisted *)
(* nothing but the user message, and its one output is the cancellation.   *)
C4_CancelRunsNothing ==
  \A t \in Tasks :
    /\ (task[t].pending0 # <<>> /\ task[t].text \in NoTexts) =>
         task[t].kind = "no"
    /\ task[t].kind = "no" =>
         /\ Idle(t)
         /\ pending = <<>>
         /\ \A i \in 1 .. Len(invoked) :
              invoked[i].call_id # task[t].pending0[1].tool_call.call_id
         /\ Len(invoked) = task[t].inv0
         /\ task[t].llm_calls = 0
         /\ task[t].gw = <<>>
         /\ Added(t) = <<StoredMessage("user", task[t].text)>>
         /\ task[t].out = << <<"Cancelled tool call.">> >>
         /\ outputs[Len(outputs)] =
              OutputText(task[t].session_id, <<"Cancelled tool call.">>)

(* a "NO " with trailing blank cancelled a pending call                    *)
C4_Witness ==
  \E t \in Tasks :
    /\ task[t].kind = "no"
    /\ task[t].text = <<"N", "O", " ">>
    /\ task[t].pending0 # <<>>
    /\ pending = <<>>

(* C5: an input that is none of y, yes, n, no while a confirmation is      *)
(* pending is answered with the re-prompt and changes nothing but the      *)
(* history: same pending record, no gateway call, no handler invocation,   *)
(* no chat call; and whatever came in between, a later "yes" consumes the  *)
(* record exactly as it was stored and resumes from its snapshot.          *)
C5_UnclearKeepsPending ==
  \A t \in Tasks :
    /\ (task[t].pending0 # <<>> /\ task[t].text \in OtherTexts) =>
         task[t].kind = "other"
    /\ task[t].kind = "other" =>
         /\ Idle(t)
         /\ pending = task[t].pending0
         /\ pending = suspended
         /\ Len(invoked) = task[t].inv0
         /\ task[t].gw = <<>>
         /\ task[t].llm_calls = 0
         /\ Added(t) = <<StoredMessage("user", task[t].text)>>
         /\ task[t].out = << <<"Confirm with yes/no.">> >>
    /\ task[t].kind = "yes" =>
         /\ task[t].pend = suspended
         /\ task[t].pc = "cllm" => task[t].messages = ResumedPrompt(t)

(* turn, unclear answer, then a "yes" that reached its chat call           *)
C5_Witness ==
  \E t \in Tasks :
    /\ task[t].kind = "yes"
    /\ task[t].pc = "cllm"
    /\ inputs = 3
    /\ turns = 1
    /\ \E i \in 1 .. Len(history["s1"]) :
         /\ i > 1
         /\ history["s1"][i] = StoredMessage("user", <<"m", "a", "y", "b", "e">>)

ExceededText == <<"Tool loop exceeded max steps.">>

(* where a turn stands: the step of the range loop, then the position in   *)
(* the calls of the current response (0 while the chat call is awaited)    *)
Rank(h) == <<h.step, IF h.pc = "tool" THEN h.idx ELSE 0>>

RankLess(a, b) == a[1] < b[1] \/ (a[1] = b[1] /\ a[2] < b[2])

(* C6 as stated: a turn makes at most max_tool_steps chat calls, and when  *)
(* every chat call was answered with a response carrying a tool call the   *)
(* turn ends with the loop-cap text and, with one call per response,       *)
(* exactly max_tool_steps persisted tool results.                          *)
C6_LoopCapAlways ==
  \A t \in Tasks :
    task[t].kind = "turn" =>
      /\ task[t].llm_calls <= max_tool_steps
      /\ ( /\ Idle(t)
           /\ task[t].all_tool
           /\ task[t].last_response # <<>>
           /\ ~ task[t].llm_failed
           /\ ~ task[t].raised )
         => /\ task[t].out = <<ExceededText>>
            /\ task[t].one_per_step =>
                 Len(ToolMessages(Added(t))) = max_tool_steps

C6_TurnOutcome ==
  \A t \in Tasks :
    task[t].kind = "turn" =>
      /\ task[t].llm_calls <= max_tool_steps
      /\ task[t].step < max_tool_steps
      /\ task[t].idx <= Len(task[t].calls) + 1
      /\ ( /\ Idle(t)
           /\ task[t].all_tool
           /\ task[t].last_response # <<>>
           /\ ~ task[t].llm_failed )
         => \/ /\ task[t].out = <<ExceededText>>
               /\ task[t].llm_calls = max_tool_steps
               /\ task[t].one_per_step =>
                    /\ Len(ToolMessages(Added(t))) = max_tool_steps
                    /\ task[t].tool_results = max_tool_steps
            \/ /\ pending # <<>>
               /\ task[t].out =
                    << <<"Confirm tool call ", pending[1].tool_call.tool,
                         "? (yes/no)">> >>
            \/ /\ task[t].raised
               /\ Len(task[t].out) = 1
               /\ task[t].out[1][1] = "Runtime error: "
      /\ task[t].out = <<ExceededText>> =>
           (task[t].all_tool /\ task[t].llm_calls = max_tool_steps)

C6_TurnAdvances ==
  \A t \in Tasks :
    (task[t].kind = "turn" /\ ~ Idle(t) /\ task'[t] # task[t]) =>
      \/ task'[t].pc = "idle"
      \/ /\ task'[t].kind = "turn"
         /\ RankLess(Rank(task[t]), Rank(task'[t]))

(* C6, amended: a turn makes at most max_tool_steps chat calls and every   *)
(* step of it ends it or moves it forward in the bounded order (step,      *)
(* call position); when every chat call was answered with a response       *)
(* carrying a tool call, the turn ends with the loop-cap text after        *)
(* max_tool_steps chat calls and, with one call per response, exactly      *)
(* max_tool_steps persisted tool results - or earlier with the             *)
(* confirmation prompt of a call that needs confirmation, or with a        *)
(* Runtime error when the gateway or the registry raised.                  *)
C6_LoopCapAmended == [] C6_TurnOutcome /\ [][C6_TurnAdvances]_vars

(* a turn of three responses with one tool call each ended at the cap      *)
C6_Witness ==
  \E t \in Tasks :
    /\ task[t].kind = "turn"
    /\ Idle(t)
    /\ task[t].out = <<ExceededText>>
    /\ task[t].one_per_step
    /\ Len(ToolMessages(Added(t))) = 3

C8_GatewayFailuresAreResults ==
  \A t \in Tasks :
    /\ ~ task[t].raised
    /\ \A i \in 1 .. Len(task[t].gw) : task[t].gw[i].kind # "raise"

(* what the args_schema of each registered tool demands, written out       *)
Satisfies(tool, args) ==
  CASE tool = "web.search" ->
         "query" \in DOMAIN args /\ args["query"][1] = "string"
    [] tool = "fs.write" ->
         /\ {"path", "content"} \subseteq DOMAIN args
         /\ args["path"][1] = "string"
         /\ args["content"][1] = "string"
    [] tool = "mcp.srv.rm" ->
         "path" \in DOMAIN args => args["path"][1] = "string"

(* C9: every handler invocation has args that satisfy the tool's schema,   *)
(* and the validator raises only for args that violate it.                 *)
C9_ValidatedBeforeHandler ==
  /\ \A i \in 1 .. Len(invoked) : Satisfies(invoked[i].tool, invoked[i].args)
  /\ \A t \in Tasks : \A i \in 1 .. Len(task[t].gw) :
       /\ task[t].gw[i].kind = "raise" =>
            ~ Satisfies(task[t].gw[i].call.tool, task[t].gw[i].call.args)
       /\ task[t].gw[i].kind = "await" =>
            Satisfies(task[t].gw[i].call.tool, task[t].gw[i].call.args)

(* one call reached its handler and a later one was rejected               *)
C9_Witness ==
  /\ invoked # <<>>
  /\ \E t \in Tasks : \E i \in 1 .. Len(task[t].gw) :
       task[t].gw[i].kind = "raise"

(* the tools the policy denies, and the reason it gives                    *)
Denied(tool) ==
  \/ tool \in policy.deny_tools
  \/ tool \notin policy.confirm_tools /\ _specs[tool].risk_level = DANGEROUS

DenyReason(tool) ==
  IF tool \in policy.deny_tools THEN "Tool is blocked by policy"
                                 ELSE "Tool is dangerous by default"

(* C10: no handler invocation is for a denied tool, with or without        *)
(* requires_confirm; a call for a denied tool comes back from the gateway  *)
(* as ToolResult(ok = FALSE, error = reason), is persisted as the tool     *)
(* message {"error": reason} and appended to the prompt, and the turn      *)
(* goes on: when the denied call is the last one of its response, the      *)
(* turn makes its next chat call unless the step bound ends it.            *)
C10_DenyNeverRuns ==
  /\ \A i \in 1 .. Len(invoked) : ~ Denied(invoked[i].tool)
  /\ \A t \in Tasks : \A i \in 1 .. Len(task[t].gw) :
       Denied(task[t].gw[i].call.tool) =>
         /\ task[t].gw[i].kind = "result"
         /\ task[t].gw[i].result =
              ToolResult(task[t].gw[i].call.call_id, FALSE, None,
                         <<DenyReason(task[t].gw[i].call.tool)>>)
         /\ \E j \in 1 .. Len(Added(t)) :
              Added(t)[j] =
                StoredMessage("tool",
                  <<"{\"", "error", "\": ", "\"",
                    DenyReason(task[t].gw[i].call.tool), "\"", "}">>)
         /\ \E j \in 1 .. Len(task[t].messages) :
              /\ task[t].messages[j].role = "tool"
              /\ task[t].messages[j].content =
                   <<"{\"", "error", "\": ", "\"",
                     DenyReason(task[t].gw[i].call.tool), "\"", "}">>
         /\ ( /\ Idle(t)
              /\ task[t].gw[i].step = task[t].step
              /\ task[t].gw[i].idx = Len(task[t].calls) )
            => task[t].out = <<ExceededText>>

(* a denied call was followed by a call that reached its handler           *)
C10_Witness ==
  \E t \in Tasks :
    /\ Len(task[t].gw) >= 2
    /\ Denied(task[t].gw[1].call.tool)
    /\ task[t].gw[2].kind = "await"
    /\ Len(ToolMessages(Added(t))) >= 1

(* C14: when the awaited handler of a call does not finish within          *)
(* timeout_ms, the gateway's result for the call is                        *)
(* ToolResult(ok = FALSE, error = "timeout"), the tool message persisted   *)
(* for it is {"error": "timeout"}, and the turn goes on with it.           *)
C14_TimeoutResult ==
  \A t \in Tasks : \A i \in 1 .. Len(task[t].done) :
    LET d == task[t].done[i]
    IN  d.outcome.kind = "timeout" =>
          /\ d.result = ToolResult(d.call.call_id, FALSE, None, <<"timeout">>)
          /\ d.content = <<"{\"", "error", "\": ", "\"", "timeout", "\"", "}">>
          /\ \E j \in 1 .. Len(history[task[t].session_id]) :
               history[task[t].session_id][j] = StoredMessage("tool", d.content)
          /\ ~ task[t].raised

(* C15: for every handler invocation that returned a value v, None         *)
(* included, the gateway's result is ToolResult(ok = TRUE, error = None,   *)
(* result = {"data": v}) and the tool message persisted for it is the      *)
(* JSON of {"data": v}.                                                    *)
C15_SuccessWrapsValue ==
  \A t \in Tasks : \A i \in 1 .. Len(task[t].done) :
    LET d == task[t].done[i]
    IN  d.outcome.kind = "return" =>
          /\ d.result = ToolResult(d.call.call_id, TRUE,
                                   <<"data", d.outcome.value>>, None)
          /\ d.content = json_dumps(<<"data", d.outcome.value>>)
          /\ \E j \in 1 .. Len(history[task[t].session_id]) :
               history[task[t].session_id][j] = StoredMessage("tool", d.content)

----------------------------------------------------------------------------
(* core/policy.py on its own: a ToolPolicy constructed with any two lists  *)
(* of tool names, evaluate called with any name and any risk level.        *)

ToolNames == Registered \cup {"ghost.tool"}

RiskLevels == {SAFE, CONFIRM, DANGEROUS}

(* ToolPolicy(confirm_tools, deny_tools)                                   *)
ToolPolicies ==
  [confirm_tools : SUBSET ToolNames, deny_tools : SUBSET ToolNames]

PolicyInit ==
  /\ policy \in ToolPolicies
  /\ UnitsInit
  /\ sched = IdleScheduler
  /\ mcp = ClosedMCP
  /\ redaction = NoRedaction
  /\ fs = ClosedFs
  /\ RuntimeAtRest

(* faulty variant of ToolPolicy_evaluate: the confirm-list is looked at    *)
(* before the deny-list                                                    *)
ToolPolicy_evaluate_ConfirmFirst(tool_name, risk_level) ==
  /\ evaluated' =
       << [tool_name |-> tool_name, risk_level |-> risk_level,
           decision |->
             IF tool_name \in policy.confirm_tools
               THEN PolicyDecision(CONFIRM, <<"Tool requires confirmation">>)
               ELSE evaluate(policy, tool_name, risk_level)] >>
  /\ UNCHANGED policy
  /\ UNCHANGED <<runtime_vars, gate, registry, store, bus, sched, mcp,
                 redaction, fs>>

(* policy.evaluate(tool_name, risk_level) is called and returns            *)
ToolPolicy_evaluate(tool_name, risk_level) ==
  /\ evaluated' =
       << [tool_name |-> tool_name, risk_level |-> risk_level,
           decision |-> evaluate(policy, tool_name, risk_level)] >>
  /\ UNCHANGED policy
  /\ UNCHANGED <<runtime_vars, gate, registry, store, bus, sched, mcp,
                 redaction, fs>>

PolicyNext ==
  \E tool_name \in ToolNames : \E risk_level \in RiskLevels :
    ToolPolicy_evaluate(tool_name, risk_level)

SpecPolicy == PolicyInit /\ [][PolicyNext]_vars

(* C11: evaluate returns deny for a name on the deny-list whatever the     *)
(* risk level and whether or not the name is on the confirm-list too,      *)
(* confirm for a name on the confirm-list and not on the deny-list         *)
(* whatever the risk level, and for a name on neither list allow when the  *)
(* risk is safe, confirm when it is confirm, deny when it is dangerous.    *)
C11_EvaluatePrecedence ==
  \A i \in 1 .. Len(evaluated) :
    LET e == evaluated[i]
        d == e.decision.decision
    IN  /\ e.tool_name \in policy.deny_tools => d = "deny"
        /\ ( /\ e.tool_name \in policy.confirm_tools
             /\ e.tool_name \notin policy.deny_tools ) => d = "confirm"
        /\ ( /\ e.tool_name \notin policy.confirm_tools
             /\ e.tool_name \notin policy.deny_tools ) =>
             /\ e.risk_level = "safe" => d = "allow"
             /\ e.risk_level = "confirm" => d = "confirm"
             /\ e.risk_level = "dangerous" => d = "deny"

(* a safe tool on both lists was evaluated                                 *)
C11_Witness ==
  /\ evaluated # <<>>
  /\ evaluated[1].tool_name \in policy.deny_tools \cap policy.confirm_tools
  /\ evaluated[1].risk_level = "safe"
  /\ evaluated[1].decision.decision = "deny"

----------------------------------------------------------------------------
(* tools/gateway.py on its own: execute called by an awaiting caller, one  *)
(* call after the other, with and without an audit database (db_path).     *)
(* gate.pc is the await execute is suspended at: "handler" (wait_for) or   *)
(* "log" (asyncio.to_thread in _log_tool_call).  gate.finished records     *)
(* how each call of execute ended, gate.tool_calls is the tool_calls       *)
(* table.                                                                  *)

GatewayCalls(cid) ==
  { ToolCall("s1", cid, c.name, c.arguments, rc) :
      c \in { WebSearchOk("c1"), WebSearchBad("c1"), FsWriteOk("c1"),
              McpRm("c1"), Unregistered("c1") },
      rc \in BOOLEAN }

LogErrors == { <<"database is locked">> }

(* tool_logs.ToolCallLog, the columns the properties read                  *)
ToolCallLog(call, result) ==
  [call_id |-> call.call_id, session_id |-> call.session_id,
   tool |-> call.tool, ok |-> result.ok]

(* one finished call of execute: it returned result, or raised exc         *)
Finished(call, kind, result, exc, tool_result) ==
  [call |-> call, kind |-> kind, result |-> result, exc |-> exc,
   tool_result |-> tool_result]

NoResult(call) == ToolResult(call.call_id, FALSE, None, None)

GatewayInit ==
  /\ policy \in PolicyConfigs
  /\ gate \in { [IdleGate EXCEPT !.db_path = b] : b \in BOOLEAN }
  /\ evaluated = <<>>
  /\ registry = EmptyRegistry
  /\ store = EmptyStores
  /\ bus = EmptyBus
  /\ sched = IdleScheduler
  /\ mcp = ClosedMCP
  /\ redaction = NoRedaction
  /\ fs = ClosedFs
  /\ RuntimeAtRest

(* execute(call) up to its first await                                     *)
gateway_execute(call) ==
  /\ gate.pc = "idle"
  /\ gate.n < MaxExecutes
  /\ call \in GatewayCalls(gate.n + 1)
  /\ gate' =
       IF call.tool \notin Registered
         THEN [gate EXCEPT !.n = @ + 1,
                 !.finished = Append(@,
                    Finished(call, "raise", NoResult(call),
                             KeyErrorText(call.tool), <<>>))]
       ELSE LET r == execute(policy, call)
            IN  CASE r.kind = "result" ->
                       [gate EXCEPT !.n = @ + 1,
                          !.finished = Append(@,
                             Finished(call, "return", r.result, <<>>, <<>>))]
                  [] r.kind = "confirm" ->
                       [gate EXCEPT !.n = @ + 1,
                          !.finished = Append(@,
                             Finished(call, "raise", NoResult(call),
                                      <<"ConfirmationRequired">>, <<>>))]
                  [] r.kind = "raise" ->
                       [gate EXCEPT !.n = @ + 1,
                          !.finished = Append(@,
                             Finished(call, "raise", NoResult(call),
                                      r.exc, <<>>))]
                  [] OTHER ->
                       [gate EXCEPT !.n = @ + 1, !.pc = "handler",
                          !.call = <<call>>,
                          !.started = Append(@, call)]
  /\ UNCHANGED <<runtime_vars, policy, evaluated, registry, store,
                 bus, sched, mcp,
                 redaction, fs>>

(* The awaited handler is over: the ToolResult is built and                *)
(* _log_tool_call is awaited, which returns at once without a db_path      *)
gateway_handler_done(outcome) ==
  /\ gate.pc = "handler"
  /\ outcome \in _handlers[gate.call[1].tool]
  /\ LET tool_result == execute_result(gate.call[1], outcome)
     IN  gate' =
           IF gate.db_path
             THEN [gate EXCEPT !.pc = "log", !.tool_result = <<tool_result>>]
             ELSE [gate EXCEPT !.pc = "idle", !.call = <<>>,
                     !.finished = Append(@,
                        Finished(gate.call[1], "return", tool_result, <<>>,
                                 <<tool_result>>))]
  /\ UNCHANGED <<runtime_vars, policy, evaluated, registry, store,
                 bus, sched, mcp,
                 redaction, fs>>

(* _log_tool_call_sync raises in its thread: to_thread re-raises in        *)
(* _log_tool_call, which execute awaits outside any try                    *)
gateway_log_fails(exc) ==
  /\ gate.pc = "log"
  /\ gate' = [gate EXCEPT !.pc = "idle", !.call = <<>>, !.tool_result = <<>>,
                !.finished = Append(@,
                   Finished(gate.call[1], "raise", NoResult(gate.call[1]),
                            exc, gate.tool_result))]
  /\ UNCHANGED <<runtime_vars, policy, evaluated, registry, store,
                 bus, sched, mcp,
                 redaction, fs>>

(* _log_tool_call_sync inserts the row and execute returns tool_result     *)
gateway_log_written ==
  /\ gate.pc = "log"
  /\ gate' = [gate EXCEPT !.pc = "idle", !.call = <<>>, !.tool_result = <<>>,
                !.tool_calls =
                   Append(@, ToolCallLog(gate.call[1], gate.tool_result[1])),
                !.finished = Append(@,
                   Finished(gate.call[1], "return", gate.tool_result[1],
                            <<>>, gate.tool_result))]
  /\ UNCHANGED <<runtime_vars, policy, evaluated, registry, store,
                 bus, sched, mcp,
                 redaction, fs>>

GatewayNext ==
  \/ \E cid \in 1 .. MaxExecutes + 1 : \E call \in GatewayCalls(cid) :
       gateway_execute(call)
  \/ \E outcome \in HandlerOutcomes : gateway_handler_done(outcome)
  \/ \E exc \in LogErrors : gateway_log_fails(exc)
  \/ gateway_log_written

SpecGateway == GatewayInit /\ [][GatewayNext]_vars

(* the rows of the tool_calls table written for a call                     *)
LogsOf(call) ==
  { i \in 1 .. Len(gate.tool_calls) :
      gate.tool_calls[i].call_id = call.call_id }

(* C12: with an audit database, every call of execute that ended           *)
(* otherwise than by raising ConfirmationRequired has exactly one row in   *)
(* tool_calls (policy denials and validation failures included), and one   *)
(* that raised ConfirmationRequired has none and started no handler.       *)
C12_EveryOutcomeLogged ==
  gate.db_path =>
    \A i \in 1 .. Len(gate.finished) :
      LET f == gate.finished[i]
      IN  IF f.kind = "raise" /\ f.exc = <<"ConfirmationRequired">>
            THEN /\ LogsOf(f.call) = {}
                 /\ \A j \in 1 .. Len(gate.started) :
                      gate.started[j].call_id # f.call.call_id
            ELSE Cardinality(LogsOf(f.call)) = 1

(* C13: whenever the handler of a call was invoked and its ToolResult      *)
(* built, execute returns that ToolResult to the caller, whether or not    *)
(* the log could be written, and raises nothing.                           *)
C13_LogFailureHarmless ==
  \A i \in 1 .. Len(gate.finished) :
    LET f == gate.finished[i]
    IN  f.tool_result # <<>> =>
          /\ f.kind = "return"
          /\ f.result = f.tool_result[1]

----------------------------------------------------------------------------
(* tools/registry.py on its own: a ToolRegistry, any sequence of register  *)
(* calls, get and handler called in between.  The two dicts are functions  *)
(* from the registered names.                                              *)

(* the specs and handlers offered for registration: two names, and for     *)
(* each name two specs and two handlers that can be told apart             *)
OfferedSpecs ==
  { ToolSpec(n, [query |-> "string"], {"query"}, risk, 10000) :
      n \in {"web.search", "fs.write"}, risk \in {SAFE, DANGEROUS} }

OfferedHandlers == {"handler_a", "handler_b"}

LookupNames == {"web.search", "fs.write", "ghost.tool"}

AlreadyRegisteredText(name) == <<"Tool already registered: ", name>>

HandlerKeyErrorText(name) == <<"'Handler not registered: ", name, "'">>

RegistryInit ==
  /\ registry = EmptyRegistry
  /\ evaluated = <<>>
  /\ gate = IdleGate
  /\ store = EmptyStores
  /\ bus = EmptyBus
  /\ policy \in { [confirm_tools |-> {}, deny_tools |-> {}] }
  /\ sched = IdleScheduler
  /\ mcp = ClosedMCP
  /\ redaction = NoRedaction
  /\ fs = ClosedFs
  /\ RuntimeAtRest

(* faulty variant of ToolRegistry_register: a second registration          *)
(* replaces the first                                                      *)
ToolRegistry_register_Replaces(spec, handler) ==
  /\ Len(registry.calls) < MaxRegisters
  /\ registry' =
       [registry EXCEPT
          !._specs = [n \in DOMAIN @ \cup {spec.name} |->
                        IF n = spec.name THEN spec ELSE @[n]],
          !._handlers = [n \in DOMAIN @ \cup {spec.name} |->
                           IF n = spec.name THEN handler ELSE @[n]],
          !.calls = Append(@, [spec |-> spec, handler |-> handler,
                               exc |-> <<>>])]
  /\ UNCHANGED <<runtime_vars, policy, evaluated, gate, store, bus,
                 sched, mcp,
                 redaction, fs>>

(* registry.register(spec, handler)                                        *)
ToolRegistry_register(spec, handler) ==
  /\ Len(registry.calls) < MaxRegisters
  /\ registry' =
       IF spec.name \in DOMAIN registry._specs
         THEN [registry EXCEPT
                 !.calls = Append(@, [spec |-> spec, handler |-> handler,
                                      exc |-> AlreadyRegisteredText(spec.name)])]
         ELSE [registry EXCEPT
                 !._specs = [n \in DOMAIN @ \cup {spec.name} |->
                               IF n = spec.name THEN spec ELSE @[n]],
                 !._handlers = [n \in DOMAIN @ \cup {spec.name} |->
                                  IF n = spec.name THEN handler ELSE @[n]],
                 !.calls = Append(@, [spec |-> spec, handler |-> handler,
                                      exc |-> <<>>])]
  /\ UNCHANGED <<runtime_vars, policy, evaluated, gate, store, bus,
                 sched, mcp,
                 redaction, fs>>

(* registry.get(name)                                                      *)
ToolRegistry_get(name) ==
  /\ registry' =
       [registry EXCEPT !.last =
          IF name \notin DOMAIN registry._specs
            THEN << [op |-> "get", name |-> name, kind |-> "raise",
                     value |-> <<KeyErrorText(name)>>,
                     at |-> Len(registry.calls)] >>
            ELSE << [op |-> "get", name |-> name, kind |-> "return",
                     value |-> <<registry._specs[name]>>,
                     at |-> Len(registry.calls)] >>]
  /\ UNCHANGED <<runtime_vars, policy, evaluated, gate, store, bus,
                 sched, mcp,
                 redaction, fs>>

(* registry.handler(name)                                                  *)
ToolRegistry_handler(name) ==
  /\ registry' =
       [registry EXCEPT !.last =
          IF name \notin DOMAIN registry._handlers
            THEN << [op |-> "handler", name |-> name, kind |-> "raise",
                     value |-> <<HandlerKeyErrorText(name)>>,
                     at |-> Len(registry.calls)] >>
            ELSE << [op |-> "handler", name |-> name, kind |-> "return",
                     value |-> <<registry._handlers[name]>>,
                     at |-> Len(registry.calls)] >>]
  /\ UNCHANGED <<runtime_vars, policy, evaluated, gate, store, bus,
                 sched, mcp,
                 redaction, fs>>

RegistryNext ==
  \/ \E spec \in OfferedSpecs : \E handler \in OfferedHandlers :
       ToolRegistry_register(spec, handler)
  \/ \E name \in LookupNames : ToolRegistry_get(name)
  \/ \E name \in LookupNames : ToolRegistry_handler(name)

SpecRegistry == RegistryInit /\ [][RegistryNext]_vars

(* the register calls made for a name, by position                         *)
RegistrationsOf(name) ==
  { i \in 1 .. Len(registry.calls) : registry.calls[i].spec.name = name }

FirstRegistration(name) ==
  CHOOSE i \in RegistrationsOf(name) : \A j \in RegistrationsOf(name) : i <= j

(* C16: after any sequence of register calls, the first register call of  *)
(* a name succeeded and every later one of that name failed with          *)
(* 'already registered'; the dicts hold exactly the names registered,     *)
(* with the spec and handler of the first registration; get and handler   *)
(* return these, and fail with 'not registered' for any other name.       *)
C16_FirstRegistrationWins ==
  /\ \A name \in LookupNames :
       IF RegistrationsOf(name) = {}
         THEN /\ name \notin DOMAIN registry._specs
              /\ name \notin DOMAIN registry._handlers
         ELSE LET k == FirstRegistration(name)
              IN  /\ name \in DOMAIN registry._specs
                  /\ name \in DOMAIN registry._handlers
                  /\ registry._specs[name] = registry.calls[k].spec
                  /\ registry._handlers[name] = registry.calls[k].handler
                  /\ \A i \in RegistrationsOf(name) :
                       registry.calls[i].exc =
                         IF i = k THEN <<>>
                                  ELSE <<"Tool already registered: ", name>>
  /\ \A i \in 1 .. Len(registry.last) :
       LET l == registry.last[i]
       IN  IF RegistrationsOf(l.name) \cap (1 .. l.at) = {}
             THEN /\ l.kind = "raise"
                  /\ l.value[1] =
                       IF l.op = "get"
                         THEN <<"'Tool not registered: ", l.name, "'">>
                         ELSE <<"'Handler not registered: ", l.name, "'">>
             ELSE /\ l.kind = "return"
                  /\ l.value[1] =
                       IF l.op = "get"
                         THEN registry.calls[FirstRegistration(l.name)].spec
                         ELSE registry.calls[FirstRegistration(l.name)].handler

(* a name was registered twice with different specs and handlers, then     *)
(* its handler was looked up                                               *)
C16_Witness ==
  /\ \E i, j \in RegistrationsOf("web.search") :
       /\ i < j
       /\ registry.calls[i].spec # registry.calls[j].spec
       /\ registry.calls[i].handler # registry.calls[j].handler
  /\ registry.last # <<>>
  /\ registry.last[1].op = "handler"
  /\ registry.last[1].name = "web.search"
  /\ registry.last[1].at = Len(registry.calls)

----------------------------------------------------------------------------
(* core/state.py, storage/state_store.py and                               *)
(* storage/repos/conversations.py on their own: the in-memory and the      *)
(* durable state store, add_message and list_messages called in any        *)
(* order, with and without a ts argument.                                  *)

(* core.state.Message                                                      *)
Message(message_id, role, content, ts) ==
  [message_id |-> message_id, role |-> role, content |-> content, ts |-> ts]

(* conversations.ConversationMessage, a row of the table                   *)
ConversationMessage(session_id, m) ==
  [session_id |-> session_id, message_id |-> m.message_id, role |-> m.role,
   content |-> m.content, ts |-> m.ts]

(* the ts arguments explored: <<>> is None (omitted), <<v>> the value v    *)
TsArguments == {<<>>, <<1>>, <<2>>}

(* `ts or now_ts()`                                                        *)
ts_or_now(ts, now) == IF ts = <<>> \/ ts[1] = 0 THEN now ELSE ts[1]

(* InMemoryStateStore._new_message_id                                      *)
_new_message_id(st) ==
  <<"msg_", st.now, "_", Cardinality(DOMAIN st._sessions)>>

(* state_store._message_id: uuid4() never repeats                          *)
_message_id(st) == <<"msg_", st.uuid + 1>>

StoreInit ==
  /\ store = EmptyStores
  /\ evaluated = <<>>
  /\ gate = IdleGate
  /\ registry = EmptyRegistry
  /\ bus = EmptyBus
  /\ policy \in { [confirm_tools |-> {}, deny_tools |-> {}] }
  /\ sched = IdleScheduler
  /\ mcp = ClosedMCP
  /\ redaction = NoRedaction
  /\ fs = ClosedFs
  /\ RuntimeAtRest

(* The content of the k-th message handed to the stores.                   *)
ContentOf(k) == <<"m", k>>

(* InMemoryStateStore.add_message(session_id, "user", content, ts)         *)
InMemory_add_message(session_id, ts) ==
  /\ store.n < MaxAdds
  /\ LET message == Message(_new_message_id(store), "user",
                            ContentOf(store.n + 1), ts_or_now(ts, store.now))
         old == IF session_id \in DOMAIN store._sessions
                  THEN store._sessions[session_id] ELSE <<>>
     IN  store' =
           [store EXCEPT
              !.n = @ + 1,
              !._sessions =
                 [sid \in DOMAIN @ \cup {session_id} |->
                    IF sid = session_id THEN Append(old, message) ELSE @[sid]],
              !.added_mem[session_id] = Append(@, message)]
  /\ UNCHANGED <<runtime_vars, policy, evaluated, gate, registry,
                 bus, sched, mcp,
                 redaction, fs>>

(* InMemoryStateStore.list_messages(session_id)                            *)
InMemory_list_messages(session_id) ==
  /\ store' =
       [store EXCEPT !.listed =
          << [impl |-> "memory", session_id |-> session_id,
              result |-> IF session_id \in DOMAIN store._sessions
                           THEN store._sessions[session_id] ELSE <<>>,
              expected |-> store.added_mem[session_id]] >>]
  /\ UNCHANGED <<runtime_vars, policy, evaluated, gate, registry,
                 bus, sched, mcp,
                 redaction, fs>>

(* SQLiteStateStore.add_message(session_id, "user", content, ts)           *)
SQLite_add_message(session_id, ts) ==
  /\ store.n < MaxAdds
  /\ LET message == Message(_message_id(store), "user",
                            ContentOf(store.n + 1), ts_or_now(ts, store.now))
     IN  store' =
           [store EXCEPT
              !.n = @ + 1,
              !.uuid = @ + 1,
              !.rows = Append(@, ConversationMessage(session_id, message)),
              !.added_sql[session_id] = Append(@, message)]
  /\ UNCHANGED <<runtime_vars, policy, evaluated, gate, registry,
                 bus, sched, mcp,
                 redaction, fs>>

(* the rows of a session, in rowid order                                   *)
RowsOf(rows, session_id) ==
  SelectSeq(rows, LAMBDA row : row.session_id = session_id)

(* SELECT ... WHERE session_id = ? ORDER BY ts: the orders in which the    *)
(* rows may come back; rows with equal ts in any order                     *)
OrderByTs(rs) ==
  { p \in [1 .. Len(rs) -> 1 .. Len(rs)] :
      /\ \A i, j \in 1 .. Len(rs) : i # j => p[i] # p[j]
      /\ \A i, j \in 1 .. Len(rs) : i < j => rs[p[i]].ts <= rs[p[j]].ts }

(* SQLiteStateStore.list_messages(session_id)                              *)
SQLite_list_messages(session_id) ==
  /\ \E p \in OrderByTs(RowsOf(store.rows, session_id)) :
       store' =
         [store EXCEPT !.listed =
            << [impl |-> "sqlite", session_id |-> session_id,
                result |->
                  [i \in 1 .. Len(RowsOf(store.rows, session_id)) |->
                     LET row == RowsOf(store.rows, session_id)[p[i]]
                     IN  Message(row.message_id, row.role, row.content,
                                 row.ts)],
                expected |-> store.added_sql[session_id]] >>]
  /\ UNCHANGED <<runtime_vars, policy, evaluated, gate, registry,
                 bus, sched, mcp,
                 redaction, fs>>

(* time passes: now_ts() returns the next second                           *)
now_ts_advances ==
  /\ store.now < MaxClock
  /\ store' = [store EXCEPT !.now = @ + 1]
  /\ UNCHANGED <<runtime_vars, policy, evaluated, gate, registry,
                 bus, sched, mcp,
                 redaction, fs>>

StoreNext ==
  \/ \E session_id \in Sessions : \E ts \in TsArguments :
       InMemory_add_message(session_id, ts)
  \/ \E session_id \in Sessions : InMemory_list_messages(session_id)
  \/ \E session_id \in Sessions : \E ts \in TsArguments :
       SQLite_add_message(session_id, ts)
  \/ \E session_id \in Sessions : SQLite_list_messages(session_id)
  \/ now_ts_advances

SpecStore == StoreInit /\ [][StoreNext]_vars

(* C17: list_messages of a session returns exactly the messages that       *)
(* add_message appended to that session, in the order they were appended,  *)
(* whatever their ts values; for both stores.                              *)
C17_ListInInsertionOrder ==
  \A i \in 1 .. Len(store.listed) :
    store.listed[i].result = store.listed[i].expected

(* the message ids a store has handed out, by session                      *)
IdsOf(added) ==
  [sid \in Sessions |-> [i \in 1 .. Len(added[sid]) |-> added[sid][i].message_id]]

AllDistinct(ids) ==
  \A s1, s2 \in Sessions :
    \A i \in 1 .. Len(ids[s1]) : \A j \in 1 .. Len(ids[s2]) :
      (s1 # s2 \/ i # j) => ids[s1][i] # ids[s2][j]

(* C18: no two messages created by a store have the same message_id; for   *)
(* both stores.                                                            *)
C18_MessageIdsUnique ==
  /\ AllDistinct(IdsOf(store.added_mem))
  /\ AllDistinct(IdsOf(store.added_sql))

----------------------------------------------------------------------------
(* bus/broker.py on its own: an InMemoryBus, handlers subscribing at any   *)
(* time, publishers that each await their publish call before making the   *)
(* next one.  A handler is a coroutine: it is started by the await in      *)
(* publish, and later returns or raises.                                   *)

BusHandlers == {"h1", "h2"}

BusInit ==
  /\ bus = EmptyBus
  /\ evaluated = <<>>
  /\ gate = IdleGate
  /\ registry = EmptyRegistry
  /\ store = EmptyStores
  /\ policy \in { [confirm_tools |-> {}, deny_tools |-> {}] }
  /\ sched = IdleScheduler
  /\ mcp = ClosedMCP
  /\ redaction = NoRedaction
  /\ fs = ClosedFs
  /\ RuntimeAtRest

(* one publish call: handlers is the list copied at line 29, i the         *)
(* position of the handler being awaited, at the number of subscribe       *)
(* calls made before it                                                    *)
Publish(id, publisher, topic, handlers, at) ==
  [id |-> id, publisher |-> publisher, topic |-> topic,
   handlers |-> handlers, i |-> 1, at |-> at, status |-> "running"]

BusEvent(pub, ev) ==
  [pub |-> pub.id, pos |-> pub.i, handler |-> pub.handlers[pub.i], ev |-> ev]

(* bus.subscribe(topic, handler)                                           *)
subscribe(topic, handler) ==
  /\ Len(bus.subs) < MaxSubscribes
  /\ bus' = [bus EXCEPT
               !._handlers[topic] = Append(@, handler),
               !.subs = Append(@, [topic |-> topic, handler |-> handler])]
  /\ UNCHANGED <<runtime_vars, policy, evaluated, gate, registry,
                 store, sched, mcp,
                 redaction, fs>>

(* await bus.publish(topic, message), up to the await of the first         *)
(* handler; message is the bus.n + 1-st message published                  *)
publish(publisher, topic) ==
  /\ bus.active[publisher] = <<>>
  /\ bus.n < MaxPublishes
  /\ LET pub == Publish(bus.n + 1, publisher, topic, bus._handlers[topic],
                        Len(bus.subs))
     IN  bus' =
           IF pub.handlers = <<>>
             THEN [bus EXCEPT
                     !.n = @ + 1,
                     !.done = Append(@, [pub EXCEPT !.status = "returned"])]
             ELSE [bus EXCEPT
                     !.n = @ + 1,
                     !.active[publisher] = <<pub>>,
                     !.events = Append(@, BusEvent(pub, "start"))]
  /\ UNCHANGED <<runtime_vars, policy, evaluated, gate, registry,
                 store, sched, mcp,
                 redaction, fs>>

(* the awaited handler returns: the loop goes to the next handler of the   *)
(* copied list, or publish returns                                         *)
handler_returns(publisher) ==
  /\ bus.active[publisher] # <<>>
  /\ LET pub == bus.active[publisher][1]
         next == [pub EXCEPT !.i = @ + 1]
     IN  bus' =
           IF pub.i < Len(pub.handlers)
             THEN [bus EXCEPT
                     !.active[publisher] = <<next>>,
                     !.events = @ \o <<BusEvent(pub, "end"),
                                       BusEvent(next, "start")>>]
             ELSE [bus EXCEPT
                     !.active[publisher] = <<>>,
                     !.events = Append(@, BusEvent(pub, "end")),
                     !.done = Append(@, [pub EXCEPT !.status = "returned"])]
  /\ UNCHANGED <<runtime_vars, policy, evaluated, gate, registry,
                 store, sched, mcp,
                 redaction, fs>>

(* the awaited handler raises: nothing in publish catches it               *)
handler_raises(publisher) ==
  /\ bus.active[publisher] # <<>>
  /\ LET pub == bus.active[publisher][1]
     IN  bus' = [bus EXCEPT
                   !.active[publisher] = <<>>,
                   !.events = Append(@, BusEvent(pub, "raise")),
                   !.done = Append(@, [pub EXCEPT !.status = "raised"])]
  /\ UNCHANGED <<runtime_vars, policy, evaluated, gate, registry,
                 store, sched, mcp,
                 redaction, fs>>

BusNext ==
  \/ \E topic \in Topics : \E handler \in BusHandlers :
       subscribe(topic, handler)
  \/ \E publisher \in Publishers : \E topic \in Topics :
       publish(publisher, topic)
  \/ \E publisher \in Publishers : handler_returns(publisher)
  \/ \E publisher \in Publishers : handler_raises(publisher)

SpecBus == BusInit /\ [][BusNext]_vars

(* the handler invocations started for a publish call, in order            *)
StartsOf(id) ==
  SelectSeq(bus.events, LAMBDA e : e.pub = id /\ e.ev = "start")

(* the handlers subscribed to a topic by the first k subscribe calls, in   *)
(* subscription order                                                      *)
SubscribedAt(topic, k) ==
  LET ss == SelectSeq(SubSeq(bus.subs, 1, k), LAMBDA x : x.topic = topic)
  IN  [i \in 1 .. Len(ss) |-> ss[i].handler]

(* C19: a publish call that is over has invoked every handler that was     *)
(* subscribed to its topic when it was made, also after one of them        *)
(* raised, and has not raised to the publisher.                            *)
C19_RaisingHandlerIsolated ==
  \A k \in 1 .. Len(bus.done) :
    LET d == bus.done[k]
    IN  /\ d.status = "returned"
        /\ Len(StartsOf(d.id)) = Len(SubscribedAt(d.topic, d.at))

(* the position in bus.events of an event                                  *)
EventAt(id, pos, ev) ==
  { x \in 1 .. Len(bus.events) :
      /\ bus.events[x].pub = id
      /\ bus.events[x].pos = pos
      /\ bus.events[x].ev = ev }

(* C20: a publish call that is over has invoked exactly the handlers       *)
(* subscribed to its topic when it was made (none subscribed later, none   *)
(* of another topic), each once, in subscription order, each started only  *)
(* after the one before it was over; and the handler invocations of a      *)
(* publisher's earlier publish call all come before those of its later     *)
(* ones.                                                                   *)
C20_SubscriptionOrderDelivery ==
  /\ \A k \in 1 .. Len(bus.done) :
       LET d == bus.done[k]
           starts == StartsOf(d.id)
       IN  /\ [i \in 1 .. Len(starts) |-> starts[i].handler] =
                SubscribedAt(d.topic, d.at)
           /\ \A i \in 1 .. Len(starts) - 1 :
                \E x \in EventAt(d.id, i, "end") :
                  \A y \in EventAt(d.id, i + 1, "start") : x < y
  /\ \A x, y \in 1 .. Len(bus.events) :
       ( /\ bus.events[x].pub < bus.events[y].pub
         /\ \E k1, k2 \in 1 .. Len(bus.done) :
              /\ bus.done[k1].id = bus.events[x].pub
              /\ bus.done[k2].id = bus.events[y].pub
              /\ bus.done[k1].publisher = bus.done[k2].publisher )
       => x < y

----------------------------------------------------------------------------
(* core/agent_runtime.py, wire_runtime: on_input around handle_input_text, *)
(* with a state store whose add_message may fail (the durable store of     *)
(* storage/state_store.py raises sqlite3.OperationalError).                *)

PersistErrors == { <<"database is locked">> }

(* handle_input_text, lines 57-59, called by on_input: the add_message of  *)
(* the user message raises, nothing is persisted and the exception leaves  *)
(* handle_input_text.  The messages explored are those of Openers, and an  *)
(* input arriving with no confirmation pending counts as one of the        *)
(* MaxTurns.                                                               *)
InputPersistFails(t, sid, text, exc) ==
  /\ inputs < MaxInputs
  /\ pending = <<>> => turns < MaxTurns
  /\ [session_id |-> sid, text |-> text] \in Openers
  /\ t = "t1"
  /\ \A u \in Tasks : task[u].pc = "idle"
  /\ inputs' = inputs + 1
  /\ turns' = IF pending = <<>> THEN turns + 1 ELSE turns
  /\ UNCHANGED chats
  /\ Commit(t, RuntimeError(
        [World(t) EXCEPT
           !.h = [IdleTask EXCEPT !.session_id = sid, !.text = text,
                                  !.pending0 = pending,
                                  !.len0 = Len(history[sid]),
                                  !.inv0 = Len(invoked)]], exc))

(* an awaited chat call or tool handler is over: OpenRouterClient.chat     *)
(* runs under the timeout of its httpx client, a handler under wait_for    *)
Resume(t) ==
  \/ \E response \in Responses : TurnChatReturns(t, response)
  \/ \E exc \in LLMErrors : TurnChatRaises(t, exc)
  \/ \E outcome \in HandlerOutcomes : TurnToolReturns(t, outcome)
  \/ \E outcome \in HandlerOutcomes : ConfirmToolReturns(t, outcome)
  \/ \E response \in Responses : ConfirmChatReturns(t, response)
  \/ \E exc \in LLMErrors : ConfirmChatRaises(t, exc)

WiredNext ==
  \/ \E t \in Tasks : \E m \in InputMessages :
       handle_input_text(t, m.session_id, m.text)
  \/ \E t \in Tasks : \E m \in InputMessages : \E exc \in PersistErrors :
       InputPersistFails(t, m.session_id, m.text, exc)
  \/ \E t \in Tasks : Resume(t)

SpecWired == Init /\ [][WiredNext]_vars

Started(t) == task[t].text # <<>>

InProgress == { t \in Tasks : ~ Idle(t) }

IsErrorText(text) ==
  /\ Len(text) >= 1
  /\ text[1] \in {"Runtime error: ", "LLM error: "}

(* the outputs published so far match the inputs delivered so far: one     *)
(* each for the inputs whose handling is over, none yet for the one in     *)
(* progress; the latest is for the session of the latest input, and an     *)
(* error text when the handling raised                                     *)
OneOutputPerInput ==
  /\ Len(outputs) + Cardinality(InProgress) = inputs
  /\ \A t \in Tasks :
       /\ ~ Idle(t) => task[t].out = <<>>
       /\ (Idle(t) /\ Started(t)) =>
            /\ Len(task[t].out) = 1
            /\ outputs[inputs] = OutputText(task[t].session_id, task[t].out[1])
            /\ (task[t].raised \/ task[t].llm_failed) =>
                 IsErrorText(task[t].out[1])

(* what is published stays published                                       *)
OutputsOnlyGrow ==
  /\ Len(outputs') >= Len(outputs)
  /\ SubSeq(outputs', 1, Len(outputs)) = outputs

(* an invocation that is not over is suspended at one of the four awaits   *)
(* of the runtime, each of which ends: the chat call returns or raises     *)
(* within the client's timeout, the handler within wait_for's              *)
AtBoundedAwait(t) ==
  /\ task[t].pc \in {"llm", "tool", "ctool", "cllm"}
  /\ task[t].pc \in {"tool", "ctool"} =>
       /\ task[t].tool_call # <<>>
       /\ _handlers[task[t].tool_call[1].tool] # {}

(* C21: every input.text handed to on_input is answered by exactly one     *)
(* output.text for its session: none while it is being handled, one once   *)
(* it is over, whether a confirmation was pending or not, and an error     *)
(* text when handle_input_text raised (persistence failure, unknown tool,  *)
(* validation error); while it is not over it waits for a chat call or a   *)
(* tool handler that runs under a timeout; and no output is ever           *)
(* withdrawn or changed.                                                   *)
C21_OneOutputPerInput ==
  /\ [] OneOutputPerInput
  /\ [] (\A t \in Tasks : ~ Idle(t) => AtBoundedAwait(t))
  /\ [][OutputsOnlyGrow]_vars

(* three inputs answered: the handling of one raised while a confirmation  *)
(* was pending because the store failed, another raised in a turn          *)
C21_Witness ==
  /\ inputs = 3
  /\ Len(outputs) = 3
  /\ \E t \in Tasks :
       /\ Idle(t)
       /\ task[t].raised
       /\ task[t].pending0 # <<>>
       /\ task[t].kind = "none"
       /\ outputs[3] = OutputText(task[t].session_id,
                                  <<"Runtime error: ", "database is locked">>)
  /\ \E i \in 1 .. 2 : outputs[i].text[1] = "Confirm tool call "

----------------------------------------------------------------------------
(* C22: with no LLM client and no confirmation pending, an input text T    *)
(* is answered at once with the one output "Received: T" for its session,  *)
(* and its handling appended to that session's history exactly the user    *)
(* message T and then the assistant message "Received: T"; no chat call,   *)
(* no gateway call and no handler invocation is made.  Without an LLM      *)
(* client no confirmation is ever pending.                                 *)
C22_EchoWithoutLLM ==
  /\ ~ llm_client => pending = <<>>
  /\ \A t \in Tasks :
       /\ (Started(t) /\ ~ llm_client /\ task[t].pending0 = <<>>) =>
            task[t].kind = "echo"
       /\ task[t].kind = "echo" =>
            /\ Idle(t)
            /\ task[t].out = << <<"Received: ">> \o task[t].text >>
            /\ outputs[Len(outputs)] =
                 OutputText(task[t].session_id,
                            <<"Received: ">> \o task[t].text)
            /\ Len(outputs) = inputs
            /\ Added(t) =
                 << StoredMessage("user", task[t].text),
                    StoredMessage("assistant",
                                  <<"Received: ">> \o task[t].text) >>
            /\ task[t].llm_calls = 0
            /\ task[t].gw = <<>>
            /\ Len(invoked) = task[t].inv0

(* with no LLM client a "y" for session s2 was echoed twice                *)
C22_Witness ==
  /\ ~ llm_client
  /\ \E t \in Tasks :
       /\ task[t].kind = "echo"
       /\ task[t].session_id = "s2"
       /\ task[t].text = <<"y">>
       /\ task[t].len0 = 2
       /\ outputs = << OutputText("s2", <<"Received: ", "y">>),
                       OutputText("s2", <<"Received: ", "y">>) >>
       /\ history["s2"] = << StoredMessage("user", <<"y">>),
                             StoredMessage("assistant", <<"Received: ", "y">>),
                             StoredMessage("user", <<"y">>),
                             StoredMessage("assistant",
                                           <<"Received: ", "y">>) >>

----------------------------------------------------------------------------
(* C23: in the persisted history of every session each tool message comes  *)
(* directly after an assistant message, the one of the response that asked *)
(* for the call, which is persisted even when its content is empty.        *)
C23_ToolFollowsAssistant ==
  \A sid \in Sessions :
    \A i \in 1 .. Len(history[sid]) :
      history[sid][i].role = "tool" =>
        /\ i > 1
        /\ history[sid][i - 1].role = "assistant"

----------------------------------------------------------------------------
(* the number of handlers started by the first i gateway calls of h        *)
AwaitsUpTo(h, i) ==
  Cardinality({ j \in 1 .. i : h.gw[j].kind = "await" })

(* the tool message that came of the i-th gateway call of h: of the result *)
(* the gateway returned at once, or of what the awaited handler did        *)
ContentAt(h, i) ==
  IF h.gw[i].kind = "result"
    THEN tool_content(h.gw[i].result)
    ELSE h.done[AwaitsUpTo(h, i)].content

(* the tool messages a turn has appended to its working prompt             *)
PromptToolMessages(h) ==
  SelectSeq(h.messages, LAMBDA m : m.role = "tool" /\ m.tool_call_id # "")

(* C24: in a turn the calls of a response go to the gateway one at a time  *)
(* in array order: the gateway calls of the turn are ordered by step and   *)
(* array position, the positions of one step are 1, 2, ... without a gap,  *)
(* and each is the call at that position; when a call is handed to the     *)
(* gateway every earlier call of the turn has its tool message persisted   *)
(* and in the prompt; the handlers run in that order; and the tool         *)
(* messages in the history and in the working prompt are those of the      *)
(* calls, in that order, under the ids of the calls.                       *)
C24_ToolCallsInArrayOrder ==
  \A t \in Tasks :
    LET h == task[t]
        n == h.tool_results
        awaits == SelectSeq(h.gw, LAMBDA e : e.kind = "await")
    IN  h.kind = "turn" =>
          /\ \A i, j \in 1 .. Len(h.gw) :
               i < j => RankLess(<<h.gw[i].step, h.gw[i].idx>>,
                                 <<h.gw[j].step, h.gw[j].idx>>)
          /\ \A i \in 1 .. Len(h.gw) :
               /\ h.gw[i].idx = 1 \/
                    ( /\ i > 1
                      /\ h.gw[i - 1].step = h.gw[i].step
                      /\ h.gw[i - 1].idx = h.gw[i].idx - 1 )
               /\ h.gw[i].step = h.step =>
                    /\ h.gw[i].call.tool = h.calls[h.gw[i].idx].name
                    /\ h.gw[i].call.args = h.calls[h.gw[i].idx].arguments
               /\ i < Len(h.gw) => h.gw[i].kind \in {"result", "await"}
          /\ n \in {Len(h.gw) - 1, Len(h.gw)}
          /\ h.pc = "tool" =>
               /\ n = Len(h.gw) - 1
               /\ h.gw[Len(h.gw)].kind = "await"
               /\ h.tool_call = <<h.gw[Len(h.gw)].call>>
          /\ SubSeq(invoked, h.inv0 + 1, Len(invoked)) =
               [i \in 1 .. Len(awaits) |-> awaits[i].call]
          /\ ToolMessages(Added(t)) =
               [i \in 1 .. n |-> StoredMessage("tool", ContentAt(h, i))]
          /\ Len(PromptToolMessages(h)) = n
          /\ \A i \in 1 .. n :
               /\ PromptToolMessages(h)[i].content = ContentAt(h, i)
               /\ h.gw[i].step = h.step =>
                    PromptToolMessages(h)[i].tool_call_id =
                      h.calls[h.gw[i].idx].id

(* a response with two calls: the handler of the first returned, then the  *)
(* second was refused by the policy, and both tool messages are persisted  *)
C24_Witness ==
  \E t \in Tasks :
    LET h == task[t]
    IN  /\ h.kind = "turn"
        /\ Len(h.calls) = 2
        /\ Len(h.gw) >= 2
        /\ h.gw[1].kind = "await"
        /\ h.gw[2].kind = "result"
        /\ h.gw[1].step = h.gw[2].step
        /\ Len(h.done) >= 1
        /\ Len(ToolMessages(Added(t))) >= 2
        /\ PromptToolMessages(h)[1].tool_call_id = "c1"
        /\ PromptToolMessages(h)[2].tool_call_id = "c2"

----------------------------------------------------------------------------
(* Overlapping invocations of handle_input_text: on_input is started for   *)
(* an input while an earlier invocation is suspended at an await (the      *)
(* TUI, the confirm dialog and the voice front ends publish from tasks of  *)
(* their own).  The runtime works on a StateStore; next to the history     *)
(* the durable store's rows of the user messages are kept, with the ts of  *)
(* the InputText each was persisted with.  The replies are left out of the *)
(* rows: the order of two user messages under ORDER BY ts depends on the   *)
(* ts values of the two alone.                                             *)

(* the ts of an InputText, stamped by its producer                         *)
InputTs == {1, 2}

(* the answers of the LLM explored: a final reply, a call that needs       *)
(* confirmation, and such a call followed by another call                  *)
OverlapResponses ==
  { LLMResponse(<<"Done.">>, <<>>),
    LLMResponse(None, <<FsWriteOk("c1")>>),
    LLMResponse(None, <<FsWriteOk("c1"), WebSearchOk("c2")>>) }

(* the inputs explored: the two openers and a refusal                      *)
OverlapInputs ==
  Openers \cup { [session_id |-> "s1", text |-> <<"n">>] }

OverlapInit ==
  /\ history = [s \in Sessions |-> <<>>]
  /\ pending = <<>>
  /\ task = [t \in Tasks |-> IdleTask]
  /\ outputs = <<>>
  /\ invoked = <<>>
  /\ call_seq = 0
  /\ llm_client = TRUE
  /\ policy \in { [confirm_tools |-> {}, deny_tools |-> {}] }
  /\ inputs = 0
  /\ chats = 0
  /\ turns = 0
  /\ suspended = <<>>
  /\ UnitsInit

(* on_input calls handle_input_text, whatever the other invocation is      *)
(* doing; the invocation takes the first free slot of the model.  At most  *)
(* MaxTurns + 1 of the inputs explored arrive with no confirmation         *)
(* pending.                                                                *)
overlapping_handle_input_text(t, sid, text, ts) ==
  /\ inputs < MaxInputs
  /\ pending = <<>> => turns < MaxTurns + 1
  /\ pending = <<>> => [session_id |-> sid, text |-> text] \in Openers
  /\ task[t].pc = "idle"
  /\ t = "t2" => task["t1"].pc # "idle"
  /\ inputs' = inputs + 1
  /\ turns' = IF pending = <<>> THEN turns + 1 ELSE turns
  /\ UNCHANGED chats
  /\ CommitRuntime(t, HandleInput(
        [World(t) EXCEPT
           !.h = [IdleTask EXCEPT !.session_id = sid, !.text = text,
                                  !.pending0 = pending,
                                  !.len0 = Len(history[sid]),
                                  !.inv0 = Len(invoked)]]))
  /\ store' =
       [store EXCEPT
          !.uuid = @ + 1,
          !.rows =
             Append(@, ConversationMessage(sid,
                         Message(_message_id(store), "user", text,
                                 ts_or_now(<<ts>>, store.now))))]
  /\ UNCHANGED <<evaluated, gate, registry, bus, sched, mcp,
                 redaction, fs>>

OverlapNext ==
  \E t \in Tasks :
    \/ \E m \in OverlapInputs : \E ts \in InputTs :
         overlapping_handle_input_text(t, m.session_id, m.text, ts)
    \/ \E response \in OverlapResponses : TurnChatReturns(t, response)
    \/ \E outcome \in HandlerOutcomes : ConfirmToolReturns(t, outcome)
    \/ \E response \in OverlapResponses : ConfirmChatReturns(t, response)

SpecOverlap == OverlapInit /\ [][OverlapNext]_vars

(* the texts of the user messages handed to handle_input_text for a        *)
(* session, in the order they were handed                                  *)
HandedTexts(sid) ==
  LET rs == RowsOf(store.rows, sid)
  IN  [i \in 1 .. Len(rs) |-> rs[i].content]

(* the user messages as the in-memory store lists them                     *)
UserOrderInMemory ==
  \A sid \in Sessions :
    LET us == SelectSeq(history[sid], LAMBDA m : m.role = "user")
    IN  [i \in 1 .. Len(us) |-> us[i].content] = HandedTexts(sid)

(* the user messages as the durable store may list them                    *)
UserOrderDurable ==
  \A sid \in Sessions :
    \A p \in OrderByTs(RowsOf(store.rows, sid)) :
      \A i \in 1 .. Len(RowsOf(store.rows, sid)) : p[i] = i

(* C25: in list_messages of a session the user messages come in the order  *)
(* their inputs were handed to handle_input_text, with either store, also  *)
(* when the handling of one input began while that of another was          *)
(* suspended at a chat call or a tool handler.                             *)
C25_UserMessagesInHandedOrder ==
  /\ UserOrderInMemory
  /\ UserOrderDurable

----------------------------------------------------------------------------
(* core/scheduling.py, core/scheduler.py, tools/local/tasks.py and         *)
(* storage/repos/tasks.py: the scheduler loop over the tasks table.        *)
(*                                                                         *)
(* A point in time is a number of seconds since the epoch, as now_ts()     *)
(* returns it.  An ISO datetime may fall between two seconds: it is given  *)
(* in half seconds, so that int(dt.timestamp()) is a division that rounds  *)
(* down.  An RRULE is FREQ=SECONDLY with an INTERVAL and an optional       *)
(* COUNT (0: none); rrulestr is given dtstart = after_ts, so the           *)
(* occurrences are after_ts, after_ts + interval, ... and rule.after with  *)
(* inc=False skips the first.                                              *)

Iso(half) == [kind |-> "iso", half |-> half, interval |-> 0, count |-> 0]

RRule(interval, count) ==
  [kind |-> "rrule", half |-> 0, interval |-> interval, count |-> count]

(* the schedules explored: 1.5 s and 2 s after the epoch, every second,    *)
(* and a rule with a single occurrence                                     *)
Schedules == { Iso(3), Iso(4), RRule(1, 0), RRule(1, 1) }

(* next_run_ts(schedule, after_ts): <<>> is None                           *)
next_run_ts(schedule, after_ts) ==
  IF schedule.kind = "rrule"
    THEN IF schedule.count = 1 THEN <<>>
                               ELSE <<after_ts + schedule.interval>>
  ELSE IF schedule.half <= 2 * after_ts THEN <<>>
  ELSE <<schedule.half \div 2>>

(* tasks_repo.TaskRecord, a row of the tasks table; created is the time    *)
(* TasksService.create ran                                                 *)
TaskRecord(id, title, schedule, payload, enabled, last_run, next_run, at) ==
  [id |-> id, title |-> title, schedule |-> schedule, payload |-> payload,
   enabled |-> enabled, last_run |-> last_run, next_run |-> next_run,
   created |-> at]

(* the create calls explored: a payload is None or a dict with a message;  *)
(* a rule with one occurrence has no future run and is refused             *)
TaskOffers ==
  { [title |-> <<"plants">>, schedule |-> Iso(3),
     payload |-> <<"message", <<"water plants">> >>],
    [title |-> <<"bins">>, schedule |-> Iso(4), payload |-> None],
    [title |-> <<"walk">>, schedule |-> RRule(1, 0), payload |-> None],
    [title |-> <<"once">>, schedule |-> RRule(1, 1), payload |-> None] }

(* the session_id the scheduler is constructed with                        *)
SchedulerSession == "s2"

(* tasks_repo.due_tasks(conn, now_ts)                                      *)
due_tasks(rows, now) ==
  SelectSeq(rows, LAMBDA r : r.enabled /\ r.next_run # <<>>
                             /\ r.next_run[1] <= now)

(* tasks_repo.update_task_run and tasks_repo.disable_task                  *)
update_task_run(rows, task_id, last_run, next_run) ==
  [k \in 1 .. Len(rows) |->
     IF rows[k].id = task_id
       THEN [rows[k] EXCEPT !.last_run = <<last_run>>, !.next_run = next_run]
       ELSE rows[k]]

disable_task(rows, task_id) ==
  [k \in 1 .. Len(rows) |->
     IF rows[k].id = task_id THEN [rows[k] EXCEPT !.enabled = FALSE]
                             ELSE rows[k]]

(* TaskScheduler._mark_task_run                                            *)
_mark_task_run(rows, task_id, schedule, last_run) ==
  LET next_run == next_run_ts(schedule, last_run) IN
  IF next_run = <<>>
    THEN update_task_run(disable_task(rows, task_id), task_id, last_run, <<>>)
    ELSE update_task_run(rows, task_id, last_run, next_run)

(* the text _emit_task builds: payload.get("message") or record.title        *)
TaskDueText(record) ==
  LET message == IF record.payload # None /\ record.payload[2] # <<>>
                   THEN record.payload[2] ELSE record.title
  IN  <<"Task due: ">> \o message

(* The runtime next to the scheduler: at rest, or waiting for the answer   *)
(* to a confirmation prompt after one turn that asked for fs.write.        *)
ConfirmingWorld ==
  AfterResponse(
    HandleInput([history |-> [s \in Sessions |-> <<>>], pending |-> <<>>,
                 outputs |-> <<>>, invoked |-> <<>>, call_seq |-> 0,
                 suspended |-> <<>>,
                 h |-> [IdleTask EXCEPT !.session_id = "s1",
                                        !.text = <<"y", "e", "s">>]]),
    LLMResponse(<<"Working.">>, <<FsWriteOk("c1")>>))

SchedulerInit ==
  /\ llm_client = TRUE
  /\ policy \in { [confirm_tools |-> {}, deny_tools |-> {}] }
  /\ \/ /\ history = [s \in Sessions |-> <<>>]
        /\ pending = <<>>
        /\ task = [t \in Tasks |-> IdleTask]
        /\ outputs = <<>>
        /\ invoked = <<>>
        /\ call_seq = 0
        /\ suspended = <<>>
        /\ inputs = 0
        /\ chats = 0
        /\ turns = 0
     \/ /\ history = ConfirmingWorld.history
        /\ pending = ConfirmingWorld.pending
        /\ task = [t \in Tasks |-> IF t = "t1" THEN ConfirmingWorld.h
                                               ELSE IdleTask]
        /\ outputs = ConfirmingWorld.outputs
        /\ invoked = ConfirmingWorld.invoked
        /\ call_seq = ConfirmingWorld.call_seq
        /\ suspended = ConfirmingWorld.suspended
        /\ inputs = 1
        /\ chats = 1
        /\ turns = 1
  /\ evaluated = <<>>
  /\ gate = IdleGate
  /\ registry = EmptyRegistry
  /\ store = EmptyStores
  /\ bus = EmptyBus
  /\ sched = IdleScheduler
  /\ mcp = ClosedMCP
  /\ redaction = NoRedaction
  /\ fs = ClosedFs

(* what no scheduler step touches: the components other than the bus the   *)
(* scheduler publishes on                                                  *)
BesideScheduler ==
  <<policy, evaluated, gate, registry, store, bus, mcp, redaction, fs>>

(* TasksService.create(title, schedule, payload) at the current time; it   *)
(* raises ValueError and stores nothing when next_run_ts gives None        *)
TasksService_create(title, schedule, payload) ==
  /\ Len(sched.tasks) < MaxTasks
  /\ next_run_ts(schedule, sched.now) # <<>>
  /\ sched' =
       [sched EXCEPT !.tasks =
          Append(@, TaskRecord(Len(sched.tasks) + 1, title, schedule, payload,
                               TRUE, <<>>,
                               next_run_ts(schedule, sched.now), sched.now))]
  /\ UNCHANGED runtime_vars
  /\ UNCHANGED BesideScheduler

(* time passes                                                             *)
clock_ticks ==
  /\ sched.now < MaxClock
  /\ sched' = [sched EXCEPT !.now = @ + 1]
  /\ UNCHANGED runtime_vars
  /\ UNCHANGED BesideScheduler

(* _tick, lines 37-38: now = now_ts(), and the tick waits for the thread   *)
(* that loads the due tasks                                                *)
BeginTick(s, l) ==
  [s EXCEPT !.ticks = @ + 1,
            !.loop[l] = [pc |-> "load", now |-> s.now, due |-> <<>>,
                         i |-> 0, tick |-> s.ticks + 1]]

(* scheduler.run() is called and runs up to its first await                *)
run(l) ==
  /\ sched.loop[l].pc = "none"
  /\ l = "r2" => sched.loop["r1"].pc # "none"
  /\ sched' = BeginTick([sched EXCEPT !._running = TRUE], l)
  /\ UNCHANGED runtime_vars
  /\ UNCHANGED BesideScheduler

(* scheduler.stop()                                                        *)
stop ==
  /\ sched._running
  /\ sched' = [sched EXCEPT !._running = FALSE]
  /\ UNCHANGED runtime_vars
  /\ UNCHANGED BesideScheduler

(* faulty variant of _emit_task: the notification is also written to the   *)
(* conversation history                                                    *)
_emit_task_Persists(l, record) ==
  /\ outputs' = Append(outputs, OutputText(SchedulerSession, TaskDueText(record)))
  /\ history' = [history EXCEPT ![SchedulerSession] =
                   Append(@, StoredMessage("assistant", TaskDueText(record)))]
  /\ UNCHANGED <<pending, task, invoked, call_seq, llm_client, inputs,
                 chats, turns, suspended>>

(* _emit_task, lines 47-57: the OutputText is published on output.text;    *)
(* on_input is subscribed to input.text and is not called                  *)
_emit_task(l, record) ==
  /\ outputs' = Append(outputs, OutputText(SchedulerSession, TaskDueText(record)))
  /\ UNCHANGED <<history, pending, task, invoked, call_seq, llm_client,
                 inputs, chats, turns, suspended>>

(* the record of a publication                                             *)
Publication(l, lp, record) ==
  [task_id |-> record.id, tick |-> lp.tick, loop |-> l, pos |-> lp.i,
   now |-> lp.now, occurrence |-> record.next_run[1],
   output |-> OutputText(SchedulerSession, TaskDueText(record))]

(* _tick, lines 38-40: the due tasks are loaded; the first of them is      *)
(* published, or there is none and run() goes to sleep                     *)
tick_loaded(l) ==
  /\ sched.loop[l].pc = "load"
  /\ LET due == due_tasks(sched.tasks, sched.loop[l].now)
         lp == [sched.loop[l] EXCEPT !.due = due]
     IN  IF due = <<>>
           THEN /\ sched' = [sched EXCEPT !.loop[l] = [lp EXCEPT !.pc = "sleep"]]
                /\ UNCHANGED runtime_vars
           ELSE /\ sched' =
                     [sched EXCEPT
                        !.loop[l] = [lp EXCEPT !.pc = "emit", !.i = 1],
                        !.published =
                           Append(@, Publication(l, [lp EXCEPT !.i = 1],
                                                 due[1]))]
                /\ _emit_task(l, due[1])
  /\ UNCHANGED BesideScheduler

(* _tick, lines 40-41: the publish is over, and the tick waits for the     *)
(* thread that marks the task                                              *)
task_emitted(l) ==
  /\ sched.loop[l].pc = "emit"
  /\ sched' = [sched EXCEPT !.loop[l].pc = "mark"]
  /\ UNCHANGED runtime_vars
  /\ UNCHANGED BesideScheduler

(* _tick, lines 39-41, and run, line 31: the task is marked; the next due  *)
(* task is published, or the tick is over and run() goes to sleep          *)
task_marked(l) ==
  /\ sched.loop[l].pc = "mark"
  /\ LET lp == sched.loop[l]
         cur == lp.due[lp.i]
         rows == _mark_task_run(sched.tasks, cur.id, cur.schedule, lp.now)
     IN  IF lp.i = Len(lp.due)
           THEN /\ sched' = [sched EXCEPT !.tasks = rows,
                                          !.loop[l].pc = "sleep"]
                /\ UNCHANGED runtime_vars
           ELSE /\ sched' =
                     [sched EXCEPT
                        !.tasks = rows,
                        !.loop[l] = [lp EXCEPT !.pc = "emit", !.i = lp.i + 1],
                        !.published =
                           Append(@, Publication(l, [lp EXCEPT !.i = lp.i + 1],
                                                 lp.due[lp.i + 1]))]
                /\ _emit_task(l, lp.due[lp.i + 1])
  /\ UNCHANGED BesideScheduler

(* run, lines 29-31: the sleep is over, after some time; the loop ends if  *)
(* _running is False and begins the next tick otherwise                    *)
sleep_over(l) ==
  /\ sched.loop[l].pc = "sleep"
  /\ sched.now > sched.loop[l].now
  /\ sched' = IF sched._running
                THEN BeginTick(sched, l)
                ELSE [sched EXCEPT !.loop[l].pc = "over"]
  /\ UNCHANGED runtime_vars
  /\ UNCHANGED BesideScheduler

SchedulerNext ==
  \/ \E o \in TaskOffers : TasksService_create(o.title, o.schedule, o.payload)
  \/ clock_ticks
  \/ \E l \in Loops : run(l)
  \/ stop
  \/ \E l \in Loops : tick_loaded(l)
  \/ \E l \in Loops : task_emitted(l)
  \/ \E l \in Loops : task_marked(l)
  \/ \E l \in Loops : sleep_over(l)

SpecScheduler == SchedulerInit /\ [][SchedulerNext]_vars

(* the publications made for a task, in order                              *)
PublishedFor(id) == SelectSeq(sched.published, LAMBDA x : x.task_id = id)

(* a tick is in progress in a run() coroutine                              *)
InTick(l) == sched.loop[l].pc \in {"load", "emit", "mark"}

(* the tick that published x has not yet marked the task                   *)
Unmarked(x) ==
  /\ sched.loop[x.loop].tick = x.tick
  /\ sched.loop[x.loop].pc \in {"emit", "mark"}
  /\ sched.loop[x.loop].i = x.pos

(* C26: a one-shot task (ISO datetime schedule) is published at most       *)
(* once, as "Task due: " and its payload's message or else its title,      *)
(* under the scheduler's session, and once the tick that published it has  *)
(* marked it it is disabled with next_run null; a tick publishes every     *)
(* task it found due, in the order the repository returned them.           *)
C26_OneShotPublishedOnce ==
  /\ \A k \in 1 .. Len(sched.tasks) :
       LET r == sched.tasks[k]
           ps == PublishedFor(r.id)
       IN  r.schedule.kind = "iso" =>
             /\ Len(ps) <= 1
             /\ \A n \in 1 .. Len(ps) :
                  /\ ps[n].output =
                       OutputText(SchedulerSession,
                                  <<"Task due: ">> \o
                                    (IF r.payload = None THEN r.title
                                                         ELSE r.payload[2]))
                  /\ ~ Unmarked(ps[n]) =>
                       (~ r.enabled /\ r.next_run = <<>>)
  /\ \A l \in Loops :
       LET lp == sched.loop[l]
           ps == SelectSeq(sched.published, LAMBDA x : x.tick = lp.tick)
       IN  lp.tick > 0 =>
             /\ Len(ps) = IF lp.pc \in {"sleep", "over"} THEN Len(lp.due)
                                                         ELSE lp.i
             /\ \A n \in 1 .. Len(ps) :
                  /\ ps[n].pos = n
                  /\ ps[n].task_id = lp.due[n].id
             /\ \A n \in 1 .. Len(lp.due) - 1 : lp.due[n].id < lp.due[n + 1].id

(* C27: for the schedule of every task and every t up to now,              *)
(* next_run_ts(schedule, t) is null or later than t; a task that has       *)
(* not run yet is enabled with next_run later than its creation; a task    *)
(* that has run is disabled with next_run null, or enabled with next_run   *)
(* later than last_run.                                                    *)
C27_NextRunInFuture ==
  /\ \A k \in 1 .. Len(sched.tasks) : \A t \in 0 .. sched.now :
       \/ next_run_ts(sched.tasks[k].schedule, t) = <<>>
       \/ next_run_ts(sched.tasks[k].schedule, t)[1] > t
  /\ \A k \in 1 .. Len(sched.tasks) :
       LET r == sched.tasks[k]
       IN  /\ r.last_run = <<>> =>
                /\ r.enabled
                /\ r.next_run # <<>>
                /\ r.next_run[1] > r.created
           /\ r.last_run # <<>> =>
                \/ ~ r.enabled /\ r.next_run = <<>>
                \/ /\ r.enabled
                   /\ r.next_run # <<>>
                   /\ r.next_run[1] > r.last_run[1]

(* what a scheduler step may change in the runtime and the components:     *)
(* nothing of the conversation history, the pending confirmation, the      *)
(* invocations and their records; the outputs only by publications of      *)
(* due tasks                                                               *)
SchedulerFrame ==
  /\ history' = history
  /\ pending' = pending
  /\ suspended' = suspended
  /\ task' = task
  /\ invoked' = invoked
  /\ call_seq' = call_seq
  /\ BesideScheduler' = BesideScheduler
  /\ \/ outputs' = outputs
     \/ /\ Len(sched'.published) = Len(sched.published) + 1
        /\ outputs' =
             Append(outputs,
                    sched'.published[Len(sched'.published)].output)

(* C28: no step of the scheduler (run, stop, a tick loading, publishing    *)
(* and marking, the sleep) and no task creation changes any session's      *)
(* history or the pending confirmation; all it does is publish             *)
(* output.text messages and update task rows.                              *)
C28_SchedulerLeavesHistory == [][SchedulerFrame]_vars

(* a confirmation is pending for session s1 and a due task was published   *)
(* and marked by a tick                                                    *)
C28_Witness ==
  /\ pending # <<>>
  /\ history["s1"] # <<>>
  /\ Len(sched.published) >= 1
  /\ outputs[Len(outputs)].text[1] = "Task due: "
  /\ \E k \in 1 .. Len(sched.tasks) : sched.tasks[k].last_run # <<>>

(* C29: at most one tick is in progress at any time, and no task is        *)
(* published twice for the same due occurrence, whatever run() and stop()  *)
(* calls were made.                                                        *)
C29_TicksNeverOverlap ==
  /\ Cardinality({ l \in Loops : InTick(l) }) <= 1
  /\ \A m, n \in 1 .. Len(sched.published) :
       ( /\ m # n
         /\ sched.published[m].task_id = sched.published[n].task_id )
       => sched.published[m].occurrence # sched.published[n].occurrence

----------------------------------------------------------------------------
(* mcp/client.py and mcp/config.py: MCPClient.connect over the servers of  *)
(* the configuration.                                                      *)
(*                                                                         *)
(* Whether a server can be reached, answers the handshake and lists its    *)
(* tools is the environment's choice, made when connect() awaits it.  A    *)
(* stdio server is the exception: mcp_stdin_client calls mcp_stdio_client, *)
(* a name the module never binds, so entering it raises NameError.         *)

(* the tools every reachable server lists                                  *)
ListedTools == { "read", "rm" }

(* the risk texts of _parse_risk, and two more an override may hold        *)
safe_text == <<"s", "a", "f", "e">>

confirm_text == <<"c", "o", "n", "f", "i", "r", "m">>

dangerous_text == <<"d", "a", "n", "g", "e", "r", "o", "u", "s">>

padded_confirm_text == <<"c", "O", "N", "f", "i", "r", "m", " ">>

bogus_text == <<"b", "o", "g", "u", "s">>

(* MCPServerConfig values explored; the k-th server of a configuration is  *)
(* named k.  risk_overrides is a set of <<tool, risk>> pairs.              *)
ServerKinds ==
  { [transport |-> "sse", trusted |-> TRUE, allow_tools |-> {},
     risk_overrides |-> { <<"rm", dangerous_text>> }],
    [transport |-> "http", trusted |-> FALSE, allow_tools |-> { "read" },
     risk_overrides |-> {}],
    [transport |-> "sse", trusted |-> FALSE, allow_tools |-> {},
     risk_overrides |-> {}],
    [transport |-> "stdio", trusted |-> TRUE, allow_tools |-> { "read" },
     risk_overrides |-> { <<"read", bogus_text>> }],
    [transport |-> "sse", trusted |-> TRUE, allow_tools |-> {},
     risk_overrides |-> { <<"read", padded_confirm_text>>,
                         <<"rm", bogus_text>> }],
    [transport |-> "http", trusted |-> TRUE, allow_tools |-> { "rm" },
     risk_overrides |-> { <<"rm", confirm_text>> }] }

MCPServerConfig(k, kind) ==
  [name |-> k, transport |-> kind.transport, trusted |-> kind.trusted,
   allow_tools |-> kind.allow_tools, risk_overrides |-> kind.risk_overrides]

(* MCPConfig.servers: up to MaxServers servers                             *)
MCPConfigs ==
  UNION { { [k \in 1 .. n |-> MCPServerConfig(k, kinds[k])] :
            kinds \in [1 .. n -> ServerKinds] } : n \in 0 .. MaxServers }

(* _is_allowed(server, tool_name)                                          *)
_is_allowed(server, tool_name) ==
  IF server.allow_tools # {} THEN tool_name \in server.allow_tools
  ELSE server.trusted

(* server.risk_overrides.get(tool.name, "safe")                            *)
risk_override(server, tool_name) ==
  IF \E o \in server.risk_overrides : o[1] = tool_name
    THEN (CHOOSE o \in server.risk_overrides : o[1] = tool_name)[2]
  ELSE safe_text

(* the MCPTool _register_tools builds for one listed tool                  *)
MCPTool(server, tool_name) ==
  [name |-> <<"mcp", server.name, tool_name>>, server_name |-> server.name,
   server_tool_name |-> tool_name,
   risk_level |-> risk_override(server, tool_name)]

(* faulty variant of _parse_risk: the value is compared as it is written   *)
_parse_risk_Verbatim(value) ==
  CASE value = safe_text -> SAFE
    [] value = confirm_text -> CONFIRM
    [] value = dangerous_text -> DANGEROUS
    [] OTHER -> SAFE

(* _parse_risk(value), tools/registry.py lines 73-81                       *)
_parse_risk(value) ==
  LET normalized == lower(strip(value))
  IN  CASE normalized = safe_text -> SAFE
        [] normalized = confirm_text -> CONFIRM
        [] normalized = dangerous_text -> DANGEROUS
        [] OTHER -> SAFE

(* _register_tools(server, session) once session.list_tools() returned:    *)
(* _tools is a dict keyed by the tool's name                               *)
_register_tools(tools, server, listed) ==
  LET new == { MCPTool(server, n) : n \in { m \in listed : _is_allowed(server, m) } }
  IN  { t \in tools : \A u \in new : u.name # t.name } \cup new

(* an MCPClient over some configuration, before connect(); the runtime is  *)
(* at rest                                                                 *)
MCPInit ==
  /\ RuntimeAtRest
  /\ evaluated = <<>>
  /\ gate = IdleGate
  /\ registry = EmptyRegistry
  /\ store = EmptyStores
  /\ bus = EmptyBus
  /\ policy \in { [confirm_tools |-> {}, deny_tools |-> {}] }
  /\ sched = IdleScheduler
  /\ redaction = NoRedaction
  /\ fs = ClosedFs
  /\ \E servers \in MCPConfigs : mcp = [ClosedMCP EXCEPT !.servers = servers]

BesideMCP ==
  <<runtime_vars, policy, evaluated, gate, registry, store, bus, sched,
    redaction, fs>>

(* the for loop of connect() goes on to the server after the i-th, or      *)
(* connect() returns                                                       *)
NextServer(m) ==
  IF m.i < Len(m.servers) THEN [m EXCEPT !.i = m.i + 1, !.pc = "connecting"]
  ELSE [m EXCEPT !.i = 0, !.pc = "idle"]

(* connect(): nothing when an exit stack exists; else the exit stack is    *)
(* entered and the loop starts at the first server                         *)
connect ==
  /\ mcp.calls < MaxConnects
  /\ mcp' =
       IF mcp._exit_stack THEN [mcp EXCEPT !.calls = mcp.calls + 1]
       ELSE NextServer([mcp EXCEPT !.calls = mcp.calls + 1,
                                   !._exit_stack = TRUE,
                                   !.raised = <<>>, !.i = 0])
  /\ UNCHANGED BesideMCP

(* _connect_server raises before a transport is open (the server cannot    *)
(* be reached, or it is a stdio server): logged, and the loop continues    *)
transport_raises ==
  /\ mcp.pc = "connecting"
  /\ mcp' = NextServer([mcp EXCEPT !.logged = Append(mcp.logged, mcp.i)])
  /\ UNCHANGED BesideMCP

(* the transport opens and session.initialize() raises: the connection     *)
(* stays on the exit stack, the failure is logged, the loop continues      *)
initialize_raises ==
  /\ mcp.pc = "connecting"
  /\ mcp.servers[mcp.i].transport # "stdio"
  /\ mcp' = NextServer([mcp EXCEPT !.opened = Append(mcp.opened, mcp.i),
                                   !.logged = Append(mcp.logged, mcp.i)])
  /\ UNCHANGED BesideMCP

(* _connect_server returns a session: it is stored, and _register_tools    *)
(* awaits session.list_tools()                                             *)
session_returned ==
  /\ mcp.pc = "connecting"
  /\ mcp.servers[mcp.i].transport # "stdio"
  /\ mcp' = [mcp EXCEPT !.opened = Append(mcp.opened, mcp.i),
                        !._sessions = mcp._sessions \cup { mcp.i },
                        !.pc = "listing"]
  /\ UNCHANGED BesideMCP

(* session.list_tools() returns: the allowed tools are registered and the  *)
(* loop continues                                                          *)
tools_listed ==
  /\ mcp.pc = "listing"
  /\ mcp' =
       NextServer([mcp EXCEPT
         !._tools = _register_tools(mcp._tools, mcp.servers[mcp.i],
                                    ListedTools)])
  /\ UNCHANGED BesideMCP

(* session.list_tools() raises: the await stands outside the try of        *)
(* connect(), so the exception leaves connect()                            *)
list_tools_raises ==
  /\ mcp.pc = "listing"
  /\ mcp' = [mcp EXCEPT !.raised = << <<"McpError">> >>, !.pc = "idle",
                        !.i = 0]
  /\ UNCHANGED BesideMCP

(* close(), called while no connect() is running: the exit stack closes    *)
(* every connection, sessions and tools are cleared                        *)
close ==
  /\ mcp.pc = "idle"
  /\ mcp._exit_stack
  /\ mcp' = [mcp EXCEPT !._exit_stack = FALSE, !._sessions = {},
                        !._tools = {}, !.opened = <<>>, !.logged = <<>>,
                        !.raised = <<>>]
  /\ UNCHANGED BesideMCP

(* the place of a tool in the _tools dict: connect() goes through the      *)
(* servers in order, and a server lists read before rm                     *)
ToolOrder(t) ==
  2 * t.server_name + ( IF t.server_tool_name = "read" THEN 0 ELSE 1 )

(* register_mcp_tools(registry, client), called once connect() is over:    *)
(* the tools of client.list_tools() are registered in order, each with     *)
(* the risk _parse_risk gives its risk_level; registry.register raises     *)
(* ValueError at the first name that is registered already                 *)
register_mcp_tools ==
  /\ mcp.pc = "idle"
  /\ LET known(t) == t.name \in DOMAIN registry._specs
         new == { t \in mcp._tools :
                    \A u \in mcp._tools :
                      known(u) => ToolOrder(t) < ToolOrder(u) }
         names == { t.name : t \in new }
         tool(n) == CHOOSE t \in new : t.name = n
     IN  registry' =
           [registry EXCEPT
              !._specs =
                 [n \in DOMAIN @ \cup names |->
                    IF n \in names
                      THEN ToolSpec(n, <<>>, {},
                                    _parse_risk(tool(n).risk_level), 15000)
                      ELSE @[n]],
              !._handlers =
                 [n \in DOMAIN @ \cup names |->
                    IF n \in names THEN <<"call_tool", n>> ELSE @[n]]]
  /\ UNCHANGED <<runtime_vars, policy, evaluated, gate, store, bus, sched,
                 mcp, redaction, fs>>

MCPNext ==
  \/ register_mcp_tools
  \/ connect
  \/ transport_raises
  \/ initialize_raises
  \/ session_returned
  \/ tools_listed
  \/ list_tools_raises
  \/ close

SpecMCP == MCPInit /\ [][MCPNext]_vars

(* the tools of the k-th server that connect() is to expose                *)
Exposed(k) ==
  { MCPTool(mcp.servers[k], n) :
      n \in { m \in ListedTools : _is_allowed(mcp.servers[k], m) } }

(* C30: once connect() is over, every server of the configuration was      *)
(* either logged as failing or is connected with its tools exposed, no     *)
(* server in between was left out, and no server ever has more than one    *)
(* open connection, a second connect() opening none.                       *)
C30_FailingServerSkipped ==
  /\ ( mcp._exit_stack /\ mcp.pc = "idle" ) =>
       \A k \in 1 .. Len(mcp.servers) :
         \/ \E n \in 1 .. Len(mcp.logged) : mcp.logged[n] = k
         \/ k \in mcp._sessions /\ Exposed(k) \subseteq mcp._tools
  /\ \A m, n \in 1 .. Len(mcp.opened) :
       m # n => mcp.opened[m] # mcp.opened[n]

----------------------------------------------------------------------------
(* utils/redact.py: redact_text and redact_json, as the audit log of the   *)
(* gateway applies them to the args and the result of a call.              *)
(*                                                                         *)
(* A text is a tuple of pieces, each one character or a run of letters     *)
(* ("token" is the five letters, also the one keyword of TOKEN_RE the      *)
(* texts explored can spell).  The classes of the two patterns, over the   *)
(* pieces that occur in a text or in a replacement:                        *)
(*   local part  [A-Za-z0-9._%+-]   domain [A-Za-z0-9.-]                   *)
(*   top level   [A-Za-z]           value  [A-Za-z0-9_-]                   *)

Letters == { "a", "token", "redacted", "email" }

NLetters(c) ==
  CASE c = "a" -> 1 [] c = "token" -> 5 [] c = "redacted" -> 8
    [] c = "email" -> 5 [] OTHER -> 0

InLocal(c) == c \in Letters \cup { ".", "-" }

InDomain(c) == c \in Letters \cup { ".", "-" }

InTop(c) == c \in Letters

InValue(c) == c \in Letters \cup { "-" }

(* the last position of the longest run of pieces of a class that starts   *)
(* at p (p - 1 when the run is empty): a greedy + or {2,}                  *)
RunEnd(s, p, InClass(_)) ==
  CHOOSE e \in (p - 1) .. Len(s) :
    /\ \A k \in p .. e : InClass(s[k])
    /\ e = Len(s) \/ ~ InClass(s[e + 1])

RECURSIVE LetterCount(_, _, _)
LetterCount(s, p, e) ==
  IF p > e THEN 0 ELSE NLetters(s[p]) + LetterCount(s, p + 1, e)

(* EMAIL_RE matched at p: <<>> when it does not match, else <<e>>, the     *)
(* last position of the match.  The local part is the whole run before     *)
(* the @; the domain gives back pieces until a dot is followed by two or   *)
(* more letters.                                                           *)
EMAIL_RE(s, p) ==
  LET l == RunEnd(s, p, InLocal)
  IN  IF l < p \/ l + 1 > Len(s) \/ s[l + 1] # "@" THEN <<>>
      ELSE LET q == l + 2
               d == RunEnd(s, q, InDomain)
               dots == { k \in (q + 1) .. d :
                           /\ s[k] = "."
                           /\ LetterCount(s, k + 1, RunEnd(s, k + 1, InTop)) >= 2 }
           IN  IF dots = {} THEN <<>>
               ELSE LET k == CHOOSE x \in dots : \A y \in dots : y <= x
                    IN  << RunEnd(s, k + 1, InTop) >>

(* TOKEN_RE matched at p: a keyword, =, and the whole run of value pieces  *)
TOKEN_RE(s, p) ==
  IF /\ s[p] = "token"
     /\ p + 1 <= Len(s)
     /\ s[p + 1] = "="
     /\ RunEnd(s, p + 2, InValue) >= p + 2
    THEN << RunEnd(s, p + 2, InValue) >>
  ELSE <<>>

(* EMAIL_RE.sub("[redacted-email]", text) from position p on               *)
RECURSIVE email_sub(_, _)
email_sub(s, p) ==
  IF p > Len(s) THEN <<>>
  ELSE LET e == EMAIL_RE(s, p)
       IN  IF e = <<>> THEN << s[p] >> \o email_sub(s, p + 1)
           ELSE <<"[", "redacted", "-", "email", "]">> \o email_sub(s, e[1] + 1)

(* TOKEN_RE.sub(r"\1=[redacted]", text) from position p on                 *)
RECURSIVE token_sub(_, _)
token_sub(s, p) ==
  IF p > Len(s) THEN <<>>
  ELSE LET e == TOKEN_RE(s, p)
       IN  IF e = <<>> THEN << s[p] >> \o token_sub(s, p + 1)
           ELSE << s[p], "=", "[", "redacted", "]" >> \o token_sub(s, e[1] + 1)

redact_text(text) == token_sub(email_sub(text, 1), 1)

(* A JSON value: kind is "str", "int", "bool", "null", "list" or "dict";   *)
(* a list has its items in items, a dict its keys in keys and the value    *)
(* of the k-th key in items[k].                                            *)
Json(kind, text, num, keys, items) ==
  [kind |-> kind, text |-> text, num |-> num, keys |-> keys, items |-> items]

JText(s) == Json("str", s, 0, <<>>, <<>>)

JNum(n) == Json("int", <<>>, n, <<>>, <<>>)

JBool(b) == Json("bool", <<>>, IF b THEN 1 ELSE 0, <<>>, <<>>)

JNull == Json("null", <<>>, 0, <<>>, <<>>)

JList(items) == Json("list", <<>>, 0, <<>>, items)

JDict(keys, items) == Json("dict", <<>>, 0, keys, items)

(* faulty variant of redact_json: a leaf that is no string comes back as   *)
(* its text                                                                *)
RECURSIVE redact_json_LeavesAsText(_)
redact_json_LeavesAsText(value) ==
  IF value.kind = "str" THEN JText(redact_text(value.text))
  ELSE IF value.kind \in { "list", "dict" }
    THEN [value EXCEPT !.items =
            [k \in 1 .. Len(value.items) |->
               redact_json_LeavesAsText(value.items[k])]]
  ELSE JText(<< value.kind >>)

RECURSIVE redact_json(_)
redact_json(value) ==
  IF value.kind = "str" THEN JText(redact_text(value.text))
  ELSE IF value.kind = "list"
    THEN JList([k \in 1 .. Len(value.items) |-> redact_json(value.items[k])])
  ELSE IF value.kind = "dict"
    THEN JDict(value.keys,
               [k \in 1 .. Len(value.items) |-> redact_json(value.items[k])])
  ELSE value

(* the pieces a text handed to redact_json is made of                      *)
Pieces == { "a", "@", ".", "=", "token" }

RedactTexts == UNION { [1 .. n -> Pieces] : n \in 0 .. MaxText }

(* the leaves of the structured values: an address, a secret, both, a      *)
(* text with nothing to redact, and the leaves that are no strings         *)
RedactLeaves ==
  { JText(<<"a", "@", "a", ".", "a", "a">>),
    JText(<<"token", "=", "a", " ", "a">>),
    JText(<<"token", "=", "a", "@", "a", ".", "token">>),
    JText(<<"a">>), JNum(7), JBool(TRUE), JNull }

RedactKeys == { <<"path">>, <<"token", "=", "a">> }

(* lists of up to MaxItems + 1 values and dicts of up to MaxItems keys     *)
ListsOf(values) ==
  { JList(items) : items \in UNION { [1 .. n -> values] : n \in 0 .. MaxItems + 1 } }

DictsOf(values) ==
  { JDict(keys, items) :
      keys \in { ks \in UNION { [1 .. n -> RedactKeys] : n \in 0 .. MaxItems } :
                   \A i, j \in 1 .. Len(ks) : i # j => ks[i] # ks[j] },
      items \in UNION { [1 .. n -> values] : n \in 0 .. MaxItems } }

(* the values explored: every text of up to MaxText pieces, the leaves,    *)
(* lists and dicts of leaves, and lists and dicts that hold one of those   *)
FlatValues ==
  ListsOf(RedactLeaves) \cup
  { d \in DictsOf(RedactLeaves) : Len(d.keys) = Len(d.items) }

JsonValues ==
  { JText(s) : s \in RedactTexts } \cup RedactLeaves \cup FlatValues \cup
  { JList(<< f >>) : f \in FlatValues } \cup
  { JList(<< l, f >>) : l \in RedactLeaves, f \in FlatValues } \cup
  { JDict(<< k >>, << f >>) : k \in RedactKeys, f \in FlatValues }

RedactInit ==
  /\ RuntimeAtRest
  /\ policy \in { [confirm_tools |-> {}, deny_tools |-> {}] }
  /\ evaluated = <<>>
  /\ gate = IdleGate
  /\ registry = EmptyRegistry
  /\ store = EmptyStores
  /\ bus = EmptyBus
  /\ sched = IdleScheduler
  /\ mcp = ClosedMCP
  /\ fs = ClosedFs
  /\ \E value \in JsonValues :
       redaction = [NoRedaction EXCEPT !.value = << value >>]

BesideRedaction ==
  <<runtime_vars, policy, evaluated, gate, registry, store, bus, sched, mcp,
    fs>>

(* _log_tool_call_sync redacts the value for the audit log                 *)
redact_value ==
  /\ redaction.value # <<>>
  /\ redaction.once = <<>>
  /\ redaction' = [redaction EXCEPT !.once = << redact_json(redaction.value[1]) >>]
  /\ UNCHANGED BesideRedaction

(* what was redacted is redacted again                                     *)
redact_again ==
  /\ redaction.once # <<>>
  /\ redaction.twice = <<>>
  /\ redaction' = [redaction EXCEPT !.twice = << redact_json(redaction.once[1]) >>]
  /\ UNCHANGED BesideRedaction

RedactNext == redact_value \/ redact_again

SpecRedact == RedactInit /\ [][RedactNext]_vars

(* the leaves of a value that are no strings, each with the path of        *)
(* positions that leads to it                                              *)
RECURSIVE OtherLeaves(_, _)
OtherLeaves(value, at) ==
  IF value.kind = "str" THEN {}
  ELSE IF value.kind \in { "list", "dict" }
    THEN UNION { OtherLeaves(value.items[k], Append(at, k)) :
                   k \in 1 .. Len(value.items) }
  ELSE { << at, value >> }

(* C31: redacting a redacted value changes nothing, and the leaves of a    *)
(* value that are no strings (numbers, booleans, null) are the same at     *)
(* the same places after redaction.                                        *)
C31_RedactionIdempotent ==
  /\ redaction.twice # <<>> => redaction.twice = redaction.once
  /\ redaction.once # <<>> =>
       OtherLeaves(redaction.once[1], <<>>) =
         OtherLeaves(redaction.value[1], <<>>)

(* a dict that holds an address and a number was redacted twice, and the   *)
(* first redaction changed it                                              *)
C31_Witness ==
  /\ redaction.twice # <<>>
  /\ redaction.value[1].kind = "dict"
  /\ redaction.once # redaction.value
  /\ OtherLeaves(redaction.value[1], <<>>) # {}

----------------------------------------------------------------------------
(* tools/local/fs_ops.py, with the handlers fs_read and fs_write of        *)
(* tools/registry.py as the gateway awaits them.                           *)
(*                                                                         *)
(* An absolute path is the tuple of its names below "/".  The workspace    *)
(* is /ws; /ws2 and /secret.txt lie beside it.  A symbolic link is a pair  *)
(* <<path, target>>, the target an absolute path without links.            *)

workspace_root == << "ws" >>

PathNames == { "..", ".", "ws", "ws2", "notes", "link", "secret.txt" }

(* a user path: absolute or relative, up to MaxParts names                 *)
UserPaths ==
  { [absolute |-> a, parts |-> ps] :
      a \in BOOLEAN,
      ps \in UNION { [1 .. n -> PathNames] : n \in 0 .. MaxParts } }

(* the file systems explored: no link, or /ws/link leading out of the      *)
(* workspace, into it, or to "/"                                           *)
LinkTables ==
  { {},
    { << <<"ws", "link">>, <<"ws2">> >> },
    { << <<"ws", "link">>, <<"ws", "notes">> >> },
    { << <<"ws", "link">>, <<>> >> } }

(* Path.resolve(): the names are walked from "/", a link is followed as    *)
(* soon as it is reached and ".." leaves the directory reached so far      *)
RECURSIVE resolve(_, _, _)
resolve(links, at, parts) ==
  IF parts = <<>> THEN at
  ELSE LET name == Head(parts)
           rest == Tail(parts)
       IN  IF name = "." THEN resolve(links, at, rest)
           ELSE IF name = ".."
             THEN resolve(links,
                          IF at = <<>> THEN at
                          ELSE SubSeq(at, 1, Len(at) - 1), rest)
           ELSE LET below == Append(at, name)
                IN  IF \E l \in links : l[1] = below
                      THEN resolve(links,
                                   (CHOOSE l \in links : l[1] = below)[2],
                                   rest)
                    ELSE resolve(links, below, rest)

(* workspace_root / user_path: an absolute user path replaces the root     *)
JoinPath(root, user_path) ==
  IF user_path.absolute THEN user_path.parts ELSE root \o user_path.parts

(* Path.parents: the directories above a path, "/" included                *)
parents(path) == { SubSeq(path, 1, k) : k \in 0 .. Len(path) - 1 }

EscapesText == <<"Path escapes workspace">>

(* faulty variant of resolve_path: the candidate is accepted when its      *)
(* text starts with the text of the root, so /ws2 passes for /ws           *)
resolve_path_TextPrefix(links, user_path) ==
  LET candidate == resolve(links, <<>>, JoinPath(workspace_root, user_path))
      starts == /\ candidate # <<>>
                /\ candidate[1] \in { "ws", "ws2" }
  IN  IF starts THEN [kind |-> "return", path |-> candidate]
      ELSE [kind |-> "raise", path |-> candidate]

(* resolve_path(workspace_path, user_path): the candidate, or ValueError   *)
resolve_path(links, user_path) ==
  LET candidate == resolve(links, <<>>, JoinPath(workspace_root, user_path))
  IN  IF candidate = workspace_root
        THEN [kind |-> "return", path |-> candidate]
      ELSE IF workspace_root \notin parents(candidate)
        THEN [kind |-> "raise", path |-> candidate]
      ELSE [kind |-> "return", path |-> candidate]

FsInit ==
  /\ RuntimeAtRest
  /\ policy \in { [confirm_tools |-> {}, deny_tools |-> {}] }
  /\ evaluated = <<>>
  /\ gate = IdleGate
  /\ registry = EmptyRegistry
  /\ store = EmptyStores
  /\ bus = EmptyBus
  /\ sched = IdleScheduler
  /\ mcp = ClosedMCP
  /\ redaction = NoRedaction
  /\ \E links \in LinkTables : fs = [ClosedFs EXCEPT !.links = links]

BesideFs ==
  <<runtime_vars, policy, evaluated, gate, registry, store, bus, sched, mcp,
    redaction>>

(* one handler call as the gateway saw it end: result is the ToolResult    *)
(* of ToolGateway.execute                                                  *)
FsCall(tool, user_path, resolved, outcome) ==
  [tool |-> tool, user_path |-> user_path, resolved |-> resolved,
   outcome |-> outcome,
   result |-> execute_result(ToolCall("s1", "c1", tool, <<>>, FALSE),
                             outcome)]

(* fs_read(path): read_text resolves the path and reads the file; the      *)
(* read returns its text or raises OSError                                 *)
fs_read(user_path, io_outcome) ==
  /\ fs.n < MaxFsCalls
  /\ LET r == resolve_path(fs.links, user_path)
     IN  fs' =
           IF r.kind = "raise"
             THEN [fs EXCEPT !.n = fs.n + 1, !.io = <<>>,
                     !.call = << FsCall("fs.read", user_path, r,
                                        [kind |-> "raise",
                                         value |-> EscapesText]) >>]
           ELSE [fs EXCEPT !.n = fs.n + 1,
                   !.io = << [op |-> "read_text", path |-> r.path] >>,
                   !.call = << FsCall("fs.read", user_path, r, io_outcome) >>]
  /\ UNCHANGED BesideFs

(* fs_write(path, content): write_text resolves the path, creates the      *)
(* parent directories and writes the file                                  *)
fs_write(user_path, io_outcome) ==
  /\ fs.n < MaxFsCalls
  /\ LET r == resolve_path(fs.links, user_path)
     IN  fs' =
           IF r.kind = "raise"
             THEN [fs EXCEPT !.n = fs.n + 1, !.io = <<>>,
                     !.call = << FsCall("fs.write", user_path, r,
                                        [kind |-> "raise",
                                         value |-> EscapesText]) >>]
           ELSE [fs EXCEPT !.n = fs.n + 1,
                   !.io = << [op |-> "mkdir",
                              path |-> IF r.path = <<>> THEN r.path
                                       ELSE SubSeq(r.path, 1,
                                                   Len(r.path) - 1)],
                             [op |-> "write_text", path |-> r.path] >>,
                   !.call = << FsCall("fs.write", user_path, r, io_outcome) >>]
  /\ UNCHANGED BesideFs

(* what the read or the write itself may do                                *)
IoOutcomes ==
  { [kind |-> "return", value |-> <<"ok">>],
    [kind |-> "raise", value |-> <<"OSError">>] }

FsNext ==
  \/ \E user_path \in UserPaths, o \in IoOutcomes : fs_read(user_path, o)
  \/ \E user_path \in UserPaths, o \in IoOutcomes : fs_write(user_path, o)

SpecFs == FsInit /\ [][FsNext]_vars

(* a path is the workspace root or lies beneath it                         *)
InWorkspace(path) ==
  /\ Len(path) >= Len(workspace_root)
  /\ SubSeq(path, 1, Len(workspace_root)) = workspace_root

(* C32: a call whose path resolves outside the workspace ends with the     *)
(* result ok = false and the error "Path escapes workspace" and touches    *)
(* no file; a call whose path was accepted resolved to the root or below  *)
(* it, and what it reads, creates and writes is the resolved file (for a   *)
(* write, the directory that holds it as well).                            *)
C32_EscapeRejected ==
  fs.call # <<>> =>
    LET c == fs.call[1]
    IN  /\ ~ InWorkspace(c.resolved.path) =>
             /\ c.resolved.kind = "raise"
             /\ fs.io = <<>>
             /\ ~ c.result.ok
             /\ c.result.error = EscapesText
        /\ c.resolved.kind = "return" => InWorkspace(c.resolved.path)
        /\ \A k \in 1 .. Len(fs.io) :
             \/ fs.io[k].path = c.resolved.path
             \/ /\ fs.io[k].op = "mkdir"
                /\ c.tool = "fs.write"
                /\ Append(fs.io[k].path, c.resolved.path[Len(c.resolved.path)])
                     = c.resolved.path

(* the path ../secret.txt was refused, and so was a path through a link    *)
(* that leads out of the workspace                                         *)
C32_Witness ==
  /\ fs.n = 2
  /\ fs.call # <<>>
  /\ fs.call[1].user_path.parts = <<"link", "notes">>
  /\ ~ fs.call[1].user_path.absolute
  /\ fs.call[1].resolved.path = <<"ws2", "notes">>
  /\ fs.call[1].outcome.kind = "raise"
  /\ fs.io = <<>>

----------------------------------------------------------------------------
(* The prompts sent to the LLM and the confirmation slot, in the runs      *)
(* where invocations of handle_input_text overlap and in those where a     *)
(* later turn replays the history of an earlier one.                       *)

(* the invocation is suspended at a chat call; h.messages is the prompt    *)
AtChat(t) == task[t].pc \in { "llm", "cllm" }

(* the position of the nearest assistant message before position i of a    *)
(* prompt, 0 when there is none                                            *)
AssistantBefore(msgs, i) ==
  LET js == { j \in 1 .. i - 1 : msgs[j].role = "assistant" }
  IN  IF js = {} THEN 0 ELSE CHOOSE j \in js : \A k \in js : k <= j

(* the tool messages that answer the assistant message at position j: the  *)
(* ones after it, up to the next assistant message                         *)
AnswersTo(msgs, j) ==
  { i \in j + 1 .. Len(msgs) :
      msgs[i].role = "tool" /\ AssistantBefore(msgs, i) = j }

ToolCallIdsLinked(msgs) ==
  /\ \A i \in 1 .. Len(msgs) :
       msgs[i].role = "tool" =>
         LET j == AssistantBefore(msgs, i)
         IN  /\ j > 0
             /\ \E k \in 1 .. Len(msgs[j].tool_calls) :
                  msgs[j].tool_calls[k].id = msgs[i].tool_call_id
  /\ \A j \in 1 .. Len(msgs) :
       msgs[j].role = "assistant" =>
         \A k \in 1 .. Len(msgs[j].tool_calls) :
           Cardinality({ i \in AnswersTo(msgs, j) :
                           msgs[i].tool_call_id = msgs[j].tool_calls[k].id })
             = 1

(* C33: in every prompt sent to the LLM each tool message carries the id   *)
(* of a tool call listed in the nearest assistant message before it, and   *)
(* each tool call an assistant message lists is answered by exactly one    *)
(* tool message before the next assistant message or the end of the        *)
(* prompt.                                                                 *)
C33_ToolCallIdsLinked ==
  \A t \in Tasks : AtChat(t) => ToolCallIdsLinked(task[t].messages)

(* a handler is invoked in this step for a call on which the policy says   *)
(* confirm: the call was in the pending slot and the input that was        *)
(* handled in this step answered it with y or yes                          *)
InvokedOnConfirmation ==
  Len(invoked') > Len(invoked) =>
    LET c == invoked'[Len(invoked')]
    IN  evaluate(policy, c.tool, get(c.tool).risk_level).decision = CONFIRM =>
          /\ pending # <<>>
          /\ pending[1].tool_call.call_id = c.call_id
          /\ pending[1].tool_call.tool = c.tool
          /\ \E t \in Tasks :
               /\ task'[t].kind = "yes"
               /\ task'[t].pend = pending
               /\ lower(strip(task'[t].text)) \in ConfirmWords

(* C34: the handler of a tool on which the policy decides confirm, by its  *)
(* risk level or by the confirm-list, is invoked by the runtime only in    *)
(* answer to a y or yes given to the confirmation prompt of that call.     *)
C34_ConfirmBeforeInvoke == [][InvokedOnConfirmation]_vars

(* a pending call is stored in this step only into an empty slot           *)
StoredIntoEmptySlot ==
  (pending' # <<>> /\ pending' # pending) => pending = <<>>

(* C35: whenever the runtime stores a pending confirmation the slot was    *)
(* empty, so that no unresolved confirmation is overwritten, also when     *)
(* two invocations overlap at their awaits and both reach a call that      *)
(* needs confirmation.                                                     *)
C35_PendingNeverOverwritten == [][StoredIntoEmptySlot]_vars

(* C36: no call is handed to its handler twice, however many y or yes      *)
(* inputs arrive for one pending confirmation: the first empties the slot  *)
(* before it awaits the gateway, and an input that finds the slot empty    *)
(* is handled as an ordinary message, also while the first is still        *)
(* awaiting the handler or the LLM.                                        *)
C36_ConfirmedCallRunsOnce ==
  /\ \A i, j \in 1 .. Len(invoked) :
       i # j => invoked[i].call_id # invoked[j].call_id
  /\ \A t \in Tasks :
       ( task[t].kind # "none" /\ task[t].pending0 = <<>> ) =>
         task[t].kind = "turn"
  /\ \A t \in Tasks :
       task[t].kind = "yes" =>
         /\ task[t].pending0 = task[t].pend
         /\ \A u \in Tasks \ { t } :
              task[u].kind = "yes" => task[u].pend # task[t].pend

(* a second yes arrived while the first was awaiting the handler of the    *)
(* confirmed call, and was sent to the LLM as an ordinary message          *)
C36_Witness ==
  /\ task["t1"].kind = "yes"
  /\ task["t1"].pc = "ctool"
  /\ task["t2"].kind = "turn"
  /\ task["t2"].pc = "llm"
  /\ lower(strip(task["t2"].text)) \in ConfirmWords
  /\ task["t2"].inv0 = 1
  /\ Len(invoked) = 1

(* what the invocation that answered a confirmation with y or yes          *)
(* persists after the user message (the tool result, the reply) goes to    *)
(* the history of the session that asked for the call, and what it         *)
(* returns is addressed to that session                                    *)
ConfirmedGoesToRequester ==
  \A t \in Tasks :
    ( task'[t] # task[t] /\ task'[t].kind \in { "yes", "no" } ) =>
      LET sid == IF task'[t].kind = "yes" THEN task'[t].pend[1].session_id
                 ELSE task'[t].pending0[1].session_id
      IN  /\ \A s \in Sessions :
               ( \E k \in (Len(history[s]) + 1) .. Len(history'[s]) :
                   history'[s][k].role \in { "tool", "assistant" } )
               => s = sid
          /\ Len(outputs') > Len(outputs) =>
               outputs'[Len(outputs')].session_id = sid

(* C37: the result of a confirmed call and the reply that follows are      *)
(* persisted to the session of the pending call, and the outputs of the    *)
(* answer (yes or no) are addressed to it, whatever session_id the         *)
(* answering input carries.                                                *)
C37_ConfirmedGoesToRequester == [][ConfirmedGoesToRequester]_vars

(* the contents of the assistant messages this step appends to a history   *)
NewAssistant(s) ==
  { history'[s][k].content :
      k \in { i \in (Len(history[s]) + 1) .. Len(history'[s]) :
                history'[s][i].role = "assistant" } }

IsControlText(text) ==
  \/ text \in { <<"Cancelled tool call.">>, <<"Confirm with yes/no.">>,
                <<"Tool loop exceeded max steps.">> }
  \/ /\ Len(text) >= 1
     /\ text[1] \in { "Confirm tool call ", "LLM error: " }

(* what one step of an invocation persists as assistant messages and what  *)
(* it emits; the reply to a prompt without tool calls and the reply that   *)
(* follows a confirmed call are final                                      *)
OnlyRepliesPersisted ==
  \A t \in Tasks :
    task'[t] # task[t] =>
      LET h == task'[t]
          all == UNION { NewAssistant(s) : s \in Sessions }
          emits == Len(outputs') > Len(outputs)
          text == outputs'[Len(outputs')].text
          answered == chats' > chats
          r == h.last_response[1]
          blank == r.content \in { None, <<>> }
          final == answered /\ ( h.kind = "yes" \/ r.tool_calls = <<>> )
      IN  /\ all # {} =>
               \/ /\ h.kind = "echo"
                  /\ inputs' > inputs
                  /\ all = { <<"Received: ">> \o h.text }
               \/ /\ final
                  /\ all = { IF blank THEN <<"No response.">> ELSE r.content }
               \/ /\ answered
                  /\ ~ final
                  /\ ~ blank
                  /\ all = { r.content }
          /\ ( emits /\ IsControlText(text) ) =>
               /\ text \notin all
               /\ NewAssistant(h.session_id) # {} => ( answered /\ ~ final )
          /\ ( emits /\ final ) =>
               /\ NewAssistant(h.session_id) = { text }
               /\ history'[h.session_id][Len(history'[h.session_id])] =
                    StoredMessage("assistant", text)

(* C38: the confirmation prompt, the cancellation, the request to answer   *)
(* yes or no, the step limit and an LLM error are emitted without being    *)
(* persisted; the assistant messages persisted are the contents of LLM     *)
(* replies (No response. for an empty final reply) and the echo of a       *)
(* runtime without LLM; and a final reply is persisted as it is emitted.   *)
C38_OnlyRepliesPersisted == [][OnlyRepliesPersisted]_vars

(* a confirmation was asked for and given, and the empty final reply was   *)
(* emitted and persisted as No response.                                   *)
C38_Witness ==
  /\ Len(outputs) >= 2
  /\ outputs[1].text[1] = "Confirm tool call "
  /\ outputs[Len(outputs)].text = <<"No response.">>
  /\ \E s \in Sessions :
       /\ history[s] # <<>>
       /\ history[s][Len(history[s])] =
            StoredMessage("assistant", <<"No response.">>)
       /\ \A k \in 1 .. Len(history[s]) :
            history[s][k].role = "assistant" =>
              ~ IsControlText(history[s][k].content)

----------------------------------------------------------------------------
(* core/scheduler.py with the failures a tick may meet: bus.publish        *)
(* awaits the output.text subscribers one after the other and lets an      *)
(* exception of theirs through (bus/broker.py, lines 28-31), and the       *)
(* thread that marks a task may raise (the database is locked or gone).    *)
(* Neither _emit_task, _tick nor run() has a try: the exception ends the   *)
(* run() coroutine, and _running stays as it was.                          *)

(* a subscriber of output.text raises while _emit_task awaits the publish  *)
publish_raises(l) ==
  /\ sched.loop[l].pc = "emit"
  /\ sched' = [sched EXCEPT !.loop[l].pc = "publish raised"]
  /\ UNCHANGED runtime_vars
  /\ UNCHANGED BesideScheduler

(* _mark_task_run raises in its thread: the row is left as it was          *)
mark_raises(l) ==
  /\ sched.loop[l].pc = "mark"
  /\ sched' = [sched EXCEPT !.loop[l].pc = "mark raised"]
  /\ UNCHANGED runtime_vars
  /\ UNCHANGED BesideScheduler

SchedulerFaultsNext ==
  \/ SchedulerNext
  \/ \E l \in Loops : publish_raises(l)
  \/ \E l \in Loops : mark_raises(l)

(* the run() coroutine of the loop ended with an exception                 *)
Raised(l) == sched.loop[l].pc \in {"publish raised", "mark raised"}

(* the event loop resumes a coroutine whose await is over, the threads     *)
(* finish, and time passes                                                 *)
LoopStep(l) ==
  tick_loaded(l) \/ task_emitted(l) \/ task_marked(l) \/ sleep_over(l)

SpecSchedulerFair ==
  /\ SchedulerInit
  /\ [][SchedulerFaultsNext]_vars
  /\ WF_vars(clock_ticks)
  /\ \A l \in Loops : WF_vars(LoopStep(l))

(* C39: after an exception raised by a subscriber of output.text or by     *)
(* the marking of a task during a tick of a run() loop, the loop ticks     *)
(* again unless the scheduler is stopped (the clock of the model still     *)
(* having a later second to offer).                                        *)
C39_SchedulerSurvivesErrors ==
  \A l \in Loops :
    ( /\ Raised(l)
      /\ sched._running
      /\ sched.loop[l].now < MaxClock )
    ~> ( ~ sched._running \/ InTick(l) )

----------------------------------------------------------------------------
(* the exposure the configuration of a server grants a tool                *)
AllowedByConfig(server, n) ==
  \/ server.allow_tools # {} /\ n \in server.allow_tools
  \/ server.allow_tools = {} /\ server.trusted

(* connect() has registered the tools the k-th server listed               *)
Listed(k) ==
  /\ k \in mcp._sessions
  /\ ~ ( mcp.pc = "listing" /\ mcp.i = k )
  /\ ~ ( mcp.raised # <<>> /\ mcp.opened[Len(mcp.opened)] = k )

(* the client holds the tool n of the k-th server under mcp.<k>.<n>        *)
ExposedAs(k, n) == \E t \in mcp._tools : t.name = <<"mcp", k, n>>

(* a server's tool is exposed exactly when its configuration allows it     *)
ExposedWhenAllowed ==
  \A k \in 1 .. Len(mcp.servers) : \A n \in ListedTools :
    /\ ExposedAs(k, n) => AllowedByConfig(mcp.servers[k], n)
    /\ ( Listed(k) /\ AllowedByConfig(mcp.servers[k], n) ) => ExposedAs(k, n)

(* every registered MCP tool has the risk Expected gives for its server    *)
(* and name                                                                *)
RegisteredWithRisk(Expected(_, _)) ==
  \A name \in DOMAIN registry._specs :
    registry._specs[name].risk_level = Expected(mcp.servers[name[2]], name[3])

(* the risk a text names: safe when it is none of the three risk texts     *)
RiskNamed(text) ==
  CASE text = confirm_text -> CONFIRM
    [] text = dangerous_text -> DANGEROUS
    [] OTHER -> SAFE

(* the risk of the claim as written: the one the override names            *)
RiskAsWritten(server, n) == RiskNamed(risk_override(server, n))

(* the same with the override taken without the blanks around it and in    *)
(* lower case                                                              *)
RiskNormalized(server, n) == RiskNamed(lower(strip(risk_override(server, n))))

====
